---- MODULE Spec2Model ----
(***************************************************************************)
(* Model of the block chain tree (block_structure/block_chain.rs), of the  *)
(* chain updater thread (bin/bitcoin/process/broadcasting.rs and its older *)
(* variant bin/bitcoin/tui/user_response.rs), of the mutexes the threads   *)
(* of the node take around the chain, the UTXO set and the wallet, and of  *)
(* the initial download from a peer (bin/bitcoin/process/download.rs with  *)
(* node_structure/initial_block_download.rs and block_download.rs).        *)
(*                                                                         *)
(* Indices: the source indexes `blocks` from 0; sequences here start at 1, *)
(* so the root is node 1 and `None` as a parent index is written 0.        *)
(***************************************************************************)
EXTENDS Integers, Sequences, FiniteSets, TLC

\* ---------------------------------------------------------------- bounds
MaxHash == 3        \* previous-header hashes a header may carry: 0..MaxHash
MaxNonce == 1       \* nonces a header may carry: 0..MaxNonce
MaxNodes == 4       \* append_block is not called once the chain has this many nodes
MaxTx == 2          \* transactions of the universe: Tx(1)..Tx(MaxTx)

MaxPending == 2     \* no transaction is sent while this many are pending or on their way
MaxQueue == 2       \* messages the response channel holds at a time
MaxPeers == 2       \* peer threads holding a sender of the response channel

MaxTime == 2        \* header times and the configured timestamp: 0..MaxTime
NBits == 4          \* the target every header of the universe carries
MaxBatch == 2       \* headers a peer puts in one headers message
MaxSelected == 30   \* get_data is tried with up to this many hashes around its ceiling
MaxByte == 1        \* the values of a payload cell: 0..MaxByte
MaxFrames == 2      \* frames a peer writes to a stream
MaxOutputs == 3     \* outpoints a UTXO set of the wallet can hold
MaxValue == 2       \* output values: 1..MaxValue satoshis
MaxAmount == 3      \* amounts entered: 0..MaxAmount satoshis, or one that saturates
MaxFee == 1         \* fees entered: 0..MaxFee satoshis
MaxSends == 2       \* transactions the user asks for
I64Max == 31        \* i64::MAX, scaled down
MaxCommands == 3    \* commands put on a peer's command channel
MaxArrivals == 2    \* messages a peer sends while its task runs

None == 0

\* ------------------------------------------------------- data structures
\* BlockHeader::new.  The version and the merkle root are held fixed, and
\* the universe holds one header per pair (previous hash, nonce): its time
\* is fixed by the pair and every header carries the same n_bits.
BlockHeader_new(previous_block_header_hash, nonce) ==
    [ previous_block_header_hash |-> previous_block_header_hash,
      nonce  |-> nonce,
      time   |-> (previous_block_header_hash + nonce) % (MaxTime + 1),
      n_bits |-> NBits ]

Headers ==
    { BlockHeader_new(hash, nonce) : hash \in 0..MaxHash, nonce \in 0..MaxNonce }

\* BlockHeader::get_hash256d: double SHA-256 of the header bytes, modelled as
\* an injective function of the header that is never 0 (the all-zero
\* previous hash of a genesis header).
get_hash256d(header) ==
    header.previous_block_header_hash * (MaxNonce + 1) + header.nonce + 1

\* BlockHeader::proof_of_work: the n_bits are greater than the hash of the
\* header, both read as compact numbers
proof_of_work(header) == header.n_bits > get_hash256d(header)

\* Outpoint { hash, index }
Outpoint(hash, index) == [hash |-> hash, index |-> index]

\* The transactions of the universe.  Tx(1) spends nothing; Tx(2) and Tx(3)
\* both spend output 0 of Tx(1), Tx(4) and Tx(5) output 0 of Tx(2), ...
\* Odd transactions pay to the address of the wallet account, even ones
\* to an address of nobody in the wallet.
Tx(n) ==
    [ time   |-> n,
      tx_in  |-> IF n = 1 THEN <<>> ELSE << Outpoint(n \div 2, 0) >>,
      tx_out |-> << [value |-> n, pk_script |-> IF n % 2 = 1 THEN "account" ELSE "other"] >> ]

Transactions == { Tx(n) : n \in 1..MaxTx }

\* hash256d of the serialized transaction; within Transactions the time
\* field differs from transaction to transaction, so it identifies one.
TxId(transaction) == transaction.time

\* Block::new: a block with the header and no transaction yet
Block_new(header) == [header |-> header, transactions |-> <<>>]

\* Block { header, transactions }.  A header commits to the transactions of
\* its block (merkle root), so the universe holds two blocks per header:
\* the header-only block and the full block, whose transaction is fixed
\* by the header.
FullBlock(header) ==
    [header |-> header, transactions |-> << Tx((header.nonce % MaxTx) + 1) >>]

Blocks == { Block_new(header) : header \in Headers }
            \cup { FullBlock(header) : header \in Headers }

\* The merkle_root_hash field of a header: the root of the transactions the
\* header commits to, here the id of the one transaction of its full block
merkle_root_hash(header) == TxId(Tx((header.nonce % MaxTx) + 1))

\* hash256d of two hashes put one after the other; no two pairs share it,
\* and it is the id of no transaction
hash256d_pair(left, right) ==
    ((left + right) * (left + right + 1)) \div 2 + right + MaxTx + 1

\* One pass of the loop of proof_of_inclusion: an odd level gets its last
\* hash twice, then the hashes are combined two by two
merkle_level(hashes) ==
    LET even == IF Len(hashes) % 2 = 1 THEN Append(hashes, hashes[Len(hashes)])
                ELSE hashes
    IN  [i \in 1..(Len(even) \div 2) |-> hash256d_pair(even[2 * i - 1], even[2 * i])]

RECURSIVE merkle_root(_)
merkle_root(hashes) ==
    IF Len(hashes) <= 1 THEN hashes ELSE merkle_root(merkle_level(hashes))

\* BlockHeader::proof_of_inclusion: the root computed from the ids of the
\* transactions, in their order, is the merkle_root_hash of the header
proof_of_inclusion(header, transactions) ==
    LET root == merkle_root([i \in DOMAIN transactions |-> TxId(transactions[i])])
    IN  root # <<>> /\ root[1] = merkle_root_hash(header)

\* The header of the first block of the chain
Genesis == BlockHeader_new(0, 0)

\* NodeChain::first
NodeChain_first(block) ==
    [ block |-> block,
      index_previous_node |-> None,
      header_hash |-> get_hash256d(block.header) ]

\* NodeChain::new
NodeChain_new(block, index_previous_node) ==
    [ block |-> block,
      index_previous_node |-> index_previous_node,
      header_hash |-> get_hash256d(block.header) ]

\* NodeChain::is_equal
is_equal(node, block) == node.block.header = block.header

\* NodeChain::is_previous_of
is_previous_of(node, block) ==
    node.header_hash = block.header.previous_block_header_hash

\* ------------------------------------------------------------ BlockChain
VARIABLES
    blocks,        \* BlockChain.blocks: Vec<NodeChain>
    last_blocks,   \* BlockChain.last_blocks: Vec<usize>
    call,          \* the last call made on the chain
    result         \* what that call returned ("Diverge": it never returned)

chainVars == <<blocks, last_blocks, call, result>>

Outcome(res, bs, lbs) == [result |-> res, blocks |-> bs, last_blocks |-> lbs]

\* BlockChain::append_block, from tip number i on.  The inner `while let`
\* tests the parent index of the tip, which no iteration changes: when the
\* tip has a parent that neither equals nor precedes the block, the loop
\* never ends.
RECURSIVE append_block_from(_, _, _, _)
append_block_from(bs, lbs, block, i) ==
    IF i > Len(lbs) THEN Outcome("CouldNotAppendBlock", bs, lbs)
    ELSE
      LET index_last_block == lbs[i] IN
      IF index_last_block \notin DOMAIN bs
      THEN Outcome("NodeChainReferenceNotFound", bs, lbs)
      ELSE
        LET last_block == bs[index_last_block] IN
        IF is_equal(last_block, block)
        THEN Outcome("TransactionAlreadyInBlock", bs, lbs)
        ELSE IF is_previous_of(last_block, block)
        THEN Outcome("Ok",
                     Append(bs, NodeChain_new(block, index_last_block)),
                     [lbs EXCEPT ![i] = Len(bs) + 1])
        ELSE IF last_block.index_previous_node # None
        THEN
          IF last_block.index_previous_node \notin DOMAIN bs
          THEN Outcome("NodeChainReferenceNotFound", bs, lbs)
          ELSE
            LET previous == bs[last_block.index_previous_node] IN
            IF is_equal(previous, block)
            THEN Outcome("TransactionAlreadyInBlock", bs, lbs)
            ELSE IF is_previous_of(previous, block)
            THEN Outcome("Ok",
                         Append(bs, NodeChain_new(block, index_last_block)),
                         Append(lbs, Len(bs) + 1))
            ELSE Outcome("Diverge", bs, lbs)
        ELSE append_block_from(bs, lbs, block, i + 1)

append_block(bs, lbs, block) == append_block_from(bs, lbs, block, 1)

\* BlockChain::append_header
append_header(bs, lbs, header) == append_block(bs, lbs, Block_new(header))

\* BlockChain::update_block: the first node whose header is the block's
\* header gets the block (NodeChain::update_block).
RECURSIVE update_block_from(_, _, _, _)
update_block_from(bs, lbs, block, i) ==
    IF i > Len(bs) THEN Outcome("CouldNotUpdate", bs, lbs)
    ELSE IF is_equal(bs[i], block)
    THEN Outcome("Ok", [bs EXCEPT ![i].block = block], lbs)
    ELSE update_block_from(bs, lbs, block, i + 1)

\* update_block that looks at the newest node alone
update_newest_block(bs, lbs, block) == update_block_from(bs, lbs, block, Len(bs))

update_block(bs, lbs, block) == update_block_from(bs, lbs, block, 1)

\* --------------------------------------------------- UTXO set and wallet
VARIABLES
    variant,       \* which handle_peers runs: "process" (process/broadcasting.rs)
                   \* or "tui" (tui/user_response.rs)
    utxo,          \* UTXOSet: the unspent outputs, one entry per outpoint
    pending,       \* the pending transactions (variant "process": inside the
                   \* UTXOSet; variant "tui": the pending_transactions list)
    wallet,        \* Wallet: the accounts, each written as its address
    emitted,       \* the notifications sent while the last message was handled
    channel,       \* the response channel: messages sent and not yet received
    senders,       \* the peer threads that still hold a sender of the channel
    updater        \* the thread of handle_peers: "running", "done" (the channel
                   \* closed), "failed" (it returned an error) or "hung"

updaterVars == <<variant, utxo, pending, wallet, emitted, channel, senders, updater>>

\* ------------------------------------------------------------- mutexes
VARIABLES
    plan,          \* per thread, the steps left of the function it is running
    held           \* per thread, the mutexes it holds, in the order it took them

lockVars == <<plan, held>>

\* The initial download from one peer (process/download.rs, headers_first)
VARIABLES
    timestamp,       \* download_config.timestamp
    ibd,             \* the place the download has reached
    wire,            \* the messages written to the peer's stream, in order
    notified,        \* the notifications of the download, in order
    batch,           \* the headers of the last headers message read
    responding,      \* FALSE once a read ended the wait for headers
    hashed_headers,  \* the hashes get_blocks hands to get_data
    downloaded       \* the blocks the download thread returns

downloadVars ==
    <<timestamp, ibd, wire, notified, batch, responding, hashed_headers, downloaded>>

\* A node reading the stream of a peer (messages/message.rs)
VARIABLES
    sent,            \* the frames the peer wrote, in order
    peer_stream,     \* the cells of those frames, as the node reads them
    consumed,        \* the number of cells the node has read
    written,         \* the cells the node wrote to the stream
    search_name,     \* the command deserialize_until_found looks for
    search,          \* where the search is, or the error that ended it
    message_header,  \* the last header read
    decoded          \* the result of reading the message that was found

streamVars ==
    <<sent, peer_stream, consumed, written, search_name, search, message_header, decoded>>

\* The user sending a transaction from the selected account
\* (tui/user_response.rs, wallet_structure/account.rs)
VARIABLES
    overflow_checks,   \* TRUE in a build that panics on integer overflow
    selected_account,  \* wallet.get_selected_account(): an address or "None"
    amount,            \* the amount of the last transaction asked for, in satoshis
    fee,               \* its fee, in satoshis
    available,         \* the outputs of the account as create_transaction sorted them
    created,           \* the result of the last Account::create_transaction
    handed,            \* the transactions handed to broadcasting.send_transaction
    printed,           \* the messages printed to the user
    tui                \* the thread of user_input: "menu", "failed" or "panicked"

sendVars ==
    <<overflow_checks, selected_account, amount, fee, available, created, handed, printed, tui>>

\* The chain updater of the tui handling a block while the front-end shows
\* the balance (tui/user_response.rs)
VARIABLES
    receiving,       \* the block receive_block is handling, its transactions
                     \* dropped from pending_transactions and the UTXO set not
                     \* yet updated: <<>> or one block
    showing,         \* the front-end: at the "menu", or in showing_balance
                     \* with the "balance" read and the UTXO guard held
    confirmed,       \* the outputs get_balance_in_satoshis added up
    shown            \* what the last showing_balance counted

balanceVars == <<receiving, showing, confirmed, shown>>

\* program_execution from the end of the command loop to the save step
\* (tui/execution.rs)
VARIABLES
    execution,       \* the statement program_execution is at: "user_input",
                     \* "destroy", "join", "get_inner", or returned: "saved",
                     \* "error" (an Err left through `?`), "todo" (a panic)
    save_system      \* what SaveSystem::new was given

shutdownVars == <<execution, save_system>>

\* The task of one peer with its command channel (node_structure/peer_manager.rs)
VARIABLES
    commands,        \* the commands waiting on the peer's command channel
    queued,          \* every command sent on that channel so far
    incoming,        \* what the peer sent and the task has not read yet
    outgoing,        \* the transactions the task wrote to the socket
    peer_manager     \* the task: about to "read" the socket, about to look
                     \* for a "command", or "stopped" with its stream handed back

peerVars == <<commands, queued, incoming, outgoing, peer_manager>>

vars ==
    <<chainVars, updaterVars, lockVars, downloadVars, streamVars, sendVars, balanceVars,
      shutdownVars, peerVars>>

\* ------------------------------------------------ calls on the chain
\* A call that never returns leaves its caller inside it for ever.
Returned == result # "Diverge"

Apply(op, block, outcome) ==
    /\ blocks' = outcome.blocks
    /\ last_blocks' = outcome.last_blocks
    /\ call' = [op |-> op, block |-> block]
    /\ result' = outcome.result

AppendHeader ==
    /\ Returned
    /\ Len(blocks) < MaxNodes
    /\ \E header \in Headers :
          Apply("append_header", Block_new(header),
                append_header(blocks, last_blocks, header))
    /\ UNCHANGED <<updaterVars, lockVars, downloadVars, streamVars, sendVars, balanceVars, shutdownVars, peerVars>>

AppendBlock ==
    /\ Returned
    /\ Len(blocks) < MaxNodes
    /\ \E block \in Blocks :
          Apply("append_block", block, append_block(blocks, last_blocks, block))
    /\ UNCHANGED <<updaterVars, lockVars, downloadVars, streamVars, sendVars, balanceVars, shutdownVars, peerVars>>

UpdateBlock ==
    /\ Returned
    /\ \E block \in Blocks :
          Apply("update_block", block, update_block(blocks, last_blocks, block))
    /\ UNCHANGED <<updaterVars, lockVars, downloadVars, streamVars, sendVars, balanceVars, shutdownVars, peerVars>>

\* ------------------------------------------------------ UTXO operations
Range(seq) == { seq[i] : i \in DOMAIN seq }

\* Address::verify_transaction_ownership: the output pays to the address
verify_transaction_output_ownership(account, output) == output.pk_script = account

\* Account::verify_transaction_ownership: some output pays to the account
verify_transaction_ownership(account, transaction) ==
    \E i \in DOMAIN transaction.tx_out :
        verify_transaction_output_ownership(account, transaction.tx_out[i])

\* The entries a transaction adds to the UTXO set
OutputsOf(transaction) ==
    { [outpoint |-> Outpoint(TxId(transaction), i - 1), output |-> transaction.tx_out[i]] :
        i \in DOMAIN transaction.tx_out }

\* Applying one transaction: every input removes the outpoint it refers to,
\* every output is inserted under a fresh outpoint.
update_utxo_with_transaction(u, transaction) ==
    LET kept == { e \in u : e.outpoint \notin Range(transaction.tx_in) }
        new == OutputsOf(transaction)
    IN  { e \in kept : e.outpoint \notin { n.outpoint : n \in new } } \cup new

RECURSIVE update_utxo_with_transactions(_, _)
update_utxo_with_transactions(u, transactions) ==
    IF transactions = <<>> THEN u
    ELSE update_utxo_with_transactions(
             update_utxo_with_transaction(u, Head(transactions)), Tail(transactions))

\* UTXOSet::update_utxo_with_block, the unspent outputs after the block
update_utxo_with_block(u, block) ==
    update_utxo_with_transactions(u, block.transactions)

\* UTXOSet::update_utxo_with_block, the pending transactions after the
\* block: those the block contains are dropped.
pending_after_block(p, block) ==
    SelectSeq(p, LAMBDA transaction : transaction \notin Range(block.transactions))

\* UTXOSet::is_transaction_pending: the outpoints the transaction spends are
\* those of a transaction that is pending
is_transaction_pending(p, transaction) ==
    \E i \in DOMAIN p : Range(p[i].tx_in) = Range(transaction.tx_in)

\* UTXOSet::append_pending_transaction
append_pending_transaction(p, transaction) == Append(p, transaction)

\* ------------------------------------------------------------ messages
\* MessageResponse carries the ConnectionId of the peer it came from
ConnectionIds == 1..MaxPeers

BlockMessage(block, id) == [type |-> "Block", block |-> block, id |-> id]
TransactionMessage(transaction, id) ==
    [type |-> "Transaction", transaction |-> transaction, id |-> id]

\* Blocks arrive from the peers with their transactions.
Messages ==
    { BlockMessage(FullBlock(header), id) : header \in Headers, id \in ConnectionIds }
        \cup { TransactionMessage(transaction, id) :
                   transaction \in Transactions, id \in ConnectionIds }

TransactionOfAccountInNewBlock(transaction) ==
    [type |-> "TransactionOfAccountInNewBlock", transaction |-> transaction]
NewBlockAddedToTheBlockchain(block) ==
    [type |-> "NewBlockAddedToTheBlockchain", block |-> block]
TransactionOfAccountReceived(accounts, transaction) ==
    [type |-> "TransactionOfAccountReceived", accounts |-> accounts,
     transaction |-> transaction]

RECURSIVE MapSeq(_, _)
MapSeq(Op(_), seq) ==
    IF seq = <<>> THEN <<>> ELSE <<Op(Head(seq))>> \o MapSeq(Op, Tail(seq))

\* ------------------------------------------------------- chain updater
\* How handle_peers goes on after receive_block: Ok and
\* TransactionAlreadyInBlock are accepted, any other error leaves the
\* thread through `?`, and a call that never returns keeps it inside.
AfterAppend(res) ==
    IF res \in {"Ok", "TransactionAlreadyInBlock"} THEN "running"
    ELSE IF res = "Diverge" THEN "hung"
    ELSE "failed"

\* A receiver that hands out the messages but takes the newest off the channel
ReceivedNewestFirst ==
    /\ updater = "running"
    /\ channel # <<>>
    /\ channel' = SubSeq(channel, 1, Len(channel) - 1)
    /\ UNCHANGED <<variant, wallet, senders, lockVars, downloadVars, streamVars, sendVars, balanceVars, shutdownVars, peerVars>>

Received ==
    /\ updater = "running"
    /\ channel # <<>>
    /\ channel' = Tail(channel)
    /\ UNCHANGED <<variant, wallet, senders, lockVars, downloadVars, streamVars, sendVars, balanceVars, shutdownVars, peerVars>>

AppendReceived(block) ==
    LET outcome == append_block(blocks, last_blocks, block) IN
    /\ Apply("append_block", block, outcome)
    /\ updater' = AfterAppend(outcome.result)

\* process/broadcasting.rs, receive_block
ProcessReceiveBlock ==
    /\ variant = "process"
    /\ Received
    /\ Head(channel).type = "Block"
    /\ LET block == Head(channel).block IN
        /\ emitted' =
              MapSeq(TransactionOfAccountInNewBlock,
                     SelectSeq(pending, LAMBDA transaction :
                                   transaction \in Range(block.transactions)))
              \o << NewBlockAddedToTheBlockchain(block) >>
        /\ utxo' = update_utxo_with_block(utxo, block)
        /\ pending' = pending_after_block(pending, block)
        /\ AppendReceived(block)

\* process/broadcasting.rs, receive_transaction
ProcessReceiveTransaction ==
    /\ variant = "process"
    /\ Received
    /\ Head(channel).type = "Transaction"
    /\ LET transaction == Head(channel).transaction
           involved_accounts ==
               SelectSeq(wallet, LAMBDA account :
                             verify_transaction_ownership(account, transaction))
       IN  IF is_transaction_pending(pending, transaction)
           THEN /\ emitted' = <<>>
                /\ pending' = pending
           ELSE /\ emitted' =
                      IF involved_accounts # <<>>
                      THEN << TransactionOfAccountReceived(involved_accounts, transaction) >>
                      ELSE <<>>
                /\ pending' = append_pending_transaction(pending, transaction)
    /\ updater' = "running"
    /\ UNCHANGED <<utxo, chainVars>>

\* tui/user_response.rs, receive_block
TuiReceiveBlock ==
    /\ variant = "tui"
    /\ Received
    /\ Head(channel).type = "Block"
    /\ LET block == Head(channel).block IN
        /\ emitted' =
              MapSeq(TransactionOfAccountInNewBlock,
                     SelectSeq(pending, LAMBDA transaction :
                                   transaction \in Range(block.transactions)))
        /\ pending' =
              SelectSeq(pending, LAMBDA transaction :
                            transaction \notin Range(block.transactions))
        /\ utxo' = update_utxo_with_block(utxo, block)
        /\ AppendReceived(block)

\* tui/user_response.rs, receive_transaction
TuiReceiveTransaction ==
    /\ variant = "tui"
    /\ Received
    /\ Head(channel).type = "Transaction"
    /\ LET transaction == Head(channel).transaction
           owners ==
               SelectSeq(wallet, LAMBDA account :
                             verify_transaction_ownership(account, transaction))
       IN  /\ emitted' =
                 MapSeq(LAMBDA account :
                            TransactionOfAccountReceived(<<account>>, transaction),
                        owners)
           /\ pending' = IF owners # <<>> THEN Append(pending, transaction) ELSE pending
    /\ updater' = "running"
    /\ UNCHANGED <<utxo, chainVars>>

\* handle_peers: the `for message in receiver` loop ends once the channel is
\* empty and every sender is dropped.
UpdaterExit ==
    /\ updater = "running"
    /\ channel = <<>>
    /\ senders = 0
    /\ updater' = "done"
    /\ UNCHANGED <<chainVars, variant, utxo, pending, wallet, emitted, channel, senders, lockVars, downloadVars, streamVars, sendVars, balanceVars, shutdownVars, peerVars>>

InFlight(type) == Len(SelectSeq(channel, LAMBDA message : message.type = type))

\* A peer thread forwards a block or a transaction it read from its socket
PeerSend ==
    /\ senders > 0
    /\ updater \in {"running", "hung"}
    /\ Len(channel) < MaxQueue
    /\ \E message \in Messages :
          /\ message.type = "Block" => Len(blocks) + InFlight("Block") < MaxNodes
          /\ message.type = "Transaction"
                => Len(pending) + InFlight("Transaction") < MaxPending
          /\ channel' = Append(channel, message)
    /\ UNCHANGED <<chainVars, variant, utxo, pending, wallet, emitted, senders, updater, lockVars, downloadVars, streamVars, sendVars, balanceVars, shutdownVars, peerVars>>

\* A peer thread ends and drops its sender
PeerTerminate ==
    /\ senders > 0
    /\ senders' = senders - 1
    /\ UNCHANGED <<chainVars, variant, utxo, pending, wallet, emitted, channel, updater, lockVars, downloadVars, streamVars, sendVars, balanceVars, shutdownVars, peerVars>>

\* ------------------------------------------------ threads and mutexes
\* The threads that take the mutexes around the UTXO set, the chain, the
\* wallet and (variant "tui") the pending_transactions list.
Threads == {"updater", "download", "frontend"}

Mutexes == {"utxo", "chain", "wallet", "pending"}

Lock(mutex) == [op |-> "lock", mutex |-> mutex]       \* get_reference(..)
Unlock(mutex) == [op |-> "unlock", mutex |-> mutex]   \* the guard is dropped
Send(to) == [op |-> "send", to |-> to]                \* a send on a channel
Spin == [op |-> "spin"]                               \* a loop that never ends

\* process/broadcasting.rs, receive_transaction: the transaction is pending
\* already; it is new and an account owns it; it is new and nobody owns it.
process_receive_transaction ==
    { << Lock("utxo"), Unlock("utxo") >>,
      << Lock("utxo"), Lock("wallet"), Unlock("wallet"), Send("notifier"), Unlock("utxo") >>,
      << Lock("utxo"), Lock("wallet"), Unlock("wallet"), Unlock("utxo") >> }

\* process/broadcasting.rs, receive_block: append_block returns, or never does
process_receive_block ==
    { << Lock("utxo"), Send("notifier"), Lock("chain"), Unlock("chain"), Unlock("utxo") >>,
      << Lock("utxo"), Send("notifier"), Lock("chain"), Spin >> }

\* tui/user_response.rs, receive_transaction: no account owns it; one does
tui_receive_transaction ==
    { << Lock("wallet"), Unlock("wallet") >>,
      << Lock("wallet"), Unlock("wallet"), Lock("pending"), Unlock("pending") >> }

\* receive_block with the guard of pending_transactions bound to a name,
\* and so held to the end of the function
tui_receive_block_holding_pending ==
    { << Lock("pending"), Lock("utxo"), Lock("chain"),
         Unlock("chain"), Unlock("utxo"), Unlock("pending") >>,
      << Lock("pending"), Lock("utxo"), Lock("chain"), Spin >> }

\* tui/user_response.rs, receive_block: append_block returns, or never does
tui_receive_block ==
    { << Lock("pending"), Unlock("pending"), Lock("utxo"), Lock("chain"),
         Unlock("chain"), Unlock("utxo") >>,
      << Lock("pending"), Unlock("pending"), Lock("utxo"), Lock("chain"), Spin >> }

\* process/download.rs, update_block_chain_with_peer: both guards are held
\* over headers_first, which notifies HeadersReceived after every batch.
update_block_chain_with_peer ==
    { << Lock("chain"), Lock("utxo"), Send("notifier"), Unlock("utxo"), Unlock("chain") >> }

\* tui/user_response.rs, creating_accout, changing_account, removing_account
\* and the ShowAccounts arm of user_input
wallet_command == { << Lock("wallet"), Unlock("wallet") >> }

\* tui/user_response.rs, sending_transaction: no account is selected; the
\* funds do not suffice; the transaction is handed to the broadcasting.
sending_transaction ==
    { << Lock("wallet"), Unlock("wallet") >>,
      << Lock("wallet"), Lock("utxo"), Unlock("utxo"), Unlock("wallet") >>,
      << Lock("wallet"), Lock("utxo"), Send("broadcasting"), Unlock("utxo"), Unlock("wallet") >> }

\* tui/user_response.rs, showing_balance with calculate_pending_balance,
\* for a wallet of one account
showing_balance ==
    { << Lock("wallet"), Lock("utxo"), Lock("pending"), Unlock("pending"),
         Unlock("utxo"), Unlock("wallet") >> }

\* tui/user_response.rs, latest_transactions
latest_transactions == { << Lock("chain"), Unlock("chain") >> }

\* process/broadcasting.rs, create_transaction
create_transaction == { << Lock("utxo"), Unlock("utxo") >> }

\* The functions a thread runs, each with the paths through it
Programs(thread) ==
    IF thread = "updater"
    THEN IF variant = "process"
         THEN process_receive_transaction \cup process_receive_block
         ELSE tui_receive_transaction \cup tui_receive_block
    ELSE IF thread = "download"
    THEN update_block_chain_with_peer
    ELSE IF variant = "process"
         THEN create_transaction
         ELSE wallet_command \cup sending_transaction \cup showing_balance
                  \cup latest_transactions

\* Mutex::lock returns once no thread holds the mutex
Free(mutex) == \A thread \in Threads : mutex \notin Range(held[thread])

\* A thread enters one of its functions
Begin ==
    \E thread \in Threads :
        /\ plan[thread] = <<>>
        /\ \E program \in Programs(thread) :
              plan' = [plan EXCEPT ![thread] = program]
        /\ UNCHANGED <<held, chainVars, updaterVars, downloadVars, streamVars, sendVars, balanceVars, shutdownVars, peerVars>>

Acquire ==
    \E thread \in Threads :
        /\ plan[thread] # <<>>
        /\ Head(plan[thread]).op = "lock"
        /\ Free(Head(plan[thread]).mutex)
        /\ held' = [held EXCEPT ![thread] = Append(@, Head(plan[thread]).mutex)]
        /\ plan' = [plan EXCEPT ![thread] = Tail(@)]
        /\ UNCHANGED <<chainVars, updaterVars, downloadVars, streamVars, sendVars, balanceVars, shutdownVars, peerVars>>

Release ==
    \E thread \in Threads :
        /\ plan[thread] # <<>>
        /\ Head(plan[thread]).op = "unlock"
        /\ held' = [held EXCEPT ![thread] =
                        SelectSeq(@, LAMBDA mutex : mutex # Head(plan[thread]).mutex)]
        /\ plan' = [plan EXCEPT ![thread] = Tail(@)]
        /\ UNCHANGED <<chainVars, updaterVars, downloadVars, streamVars, sendVars, balanceVars, shutdownVars, peerVars>>

ChannelSend ==
    \E thread \in Threads :
        /\ plan[thread] # <<>>
        /\ Head(plan[thread]).op = "send"
        /\ plan' = [plan EXCEPT ![thread] = Tail(@)]
        /\ UNCHANGED <<held, chainVars, updaterVars, downloadVars, streamVars, sendVars, balanceVars, shutdownVars, peerVars>>

NextLocks == Begin \/ Acquire \/ Release \/ ChannelSend

\* ------------------------------------------------ the initial download
NO_STOP_HASH == 0

MAX_HEADERS_COUNT == 50000

GetHeadersMessage(header_locator_hashes, stop_hash) ==
    [ type |-> "getheaders",
      header_locator_hashes |-> header_locator_hashes,
      stop_hash |-> stop_hash ]

GetDataMessage(hashes) == [type |-> "getdata", hashes |-> hashes]

HeadersReceived(count) == [type |-> "HeadersReceived", count |-> count]

\* BlockChain::latest: the blocks of the tips, in the order of last_blocks;
\* an index get_block_at does not find is passed over
latest(bs, lbs) ==
    LET found == SelectSeq(lbs, LAMBDA index : index \in DOMAIN bs)
    IN  [i \in DOMAIN found |-> bs[found[i]].block]

\* send_get_headers_message: the hash of the header of every block of
\* latest(), in that order
header_locator_hashes(bs, lbs) ==
    LET tips == latest(bs, lbs)
    IN  [i \in DOMAIN tips |-> get_hash256d(tips[i].header)]

\* What add_headers_to_blockchain leaves: its result, the count it returns
\* and the chain
Added(res, count, bs, lbs) ==
    [result |-> res, count |-> count, blocks |-> bs, last_blocks |-> lbs]

\* add_headers_to_blockchain, with added_headers counted so far.  The
\* proof-of-work test is conjoined with `false` in the source.  The first
\* header append_header does not take ends the loop.
RECURSIVE add_headers_to_blockchain_from(_, _, _, _)
add_headers_to_blockchain_from(bs, lbs, headers, added_headers) ==
    IF headers = <<>> THEN Added("Ok", added_headers, bs, lbs)
    ELSE IF ~proof_of_work(Head(headers)) /\ FALSE
    THEN Added("WhileValidating", added_headers, bs, lbs)
    ELSE
      LET appended == append_header(bs, lbs, Head(headers)) IN
      IF appended.result = "Ok"
      THEN add_headers_to_blockchain_from(appended.blocks, appended.last_blocks,
                                          Tail(headers), added_headers + 1)
      ELSE IF appended.result = "Diverge"
      THEN Added("Diverge", added_headers, bs, lbs)
      ELSE Added("Ok", added_headers, bs, lbs)

add_headers_to_blockchain(bs, lbs, headers) ==
    add_headers_to_blockchain_from(bs, lbs, headers, 0)

\* BlockChain::get_blocks_after_timestamp
get_blocks_after_timestamp(bs, time) ==
    LET after == SelectSeq(bs, LAMBDA node : node.block.header.time > time)
    IN  [i \in DOMAIN after |-> after[i].block]

\* headers_first: of those blocks, the ones without transactions
list_of_blocks(bs, time) ==
    SelectSeq(get_blocks_after_timestamp(bs, time),
              LAMBDA block : Len(block.transactions) = 0)

\* The headers messages a peer may answer with
Batches == UNION { [1..n -> Headers] : n \in 0..MaxBatch }

\* get_peer_header, top of the loop; get_headers sends the getheaders
\* message and waits for the headers message
SendGetHeaders ==
    /\ ibd = "get_peer_header"
    /\ wire' = Append(wire, GetHeadersMessage(header_locator_hashes(blocks, last_blocks),
                                              NO_STOP_HASH))
    /\ ibd' = "get_headers"
    /\ UNCHANGED <<chainVars, updaterVars, lockVars, streamVars, sendVars, balanceVars, downloaded,
                   timestamp, notified, batch, responding, hashed_headers, shutdownVars, peerVars>>

\* How get_peer_header goes on once get_headers has returned
AfterHeaders(added) ==
    IF added.result = "Diverge" THEN "hung"
    ELSE IF added.result # "Ok" THEN "ErrorFromPeer"
    ELSE IF added.count = 0 THEN "headers_first"
    ELSE "get_peer_header"

\* get_headers reads a headers message and adds its headers to the chain;
\* get_peer_header notifies the count and loops unless it is 0
ReceiveHeaders ==
    /\ ibd = "get_headers"
    /\ \E headers \in Batches :
         LET added == add_headers_to_blockchain(blocks, last_blocks, headers) IN
         /\ Len(blocks) + Len(headers) <= MaxNodes
         /\ batch' = headers
         /\ blocks' = added.blocks
         /\ last_blocks' = added.last_blocks
         /\ notified' = IF added.result = "Ok"
                        THEN Append(notified, HeadersReceived(added.count))
                        ELSE notified
         /\ ibd' = AfterHeaders(added)
    /\ UNCHANGED <<call, result, updaterVars, lockVars, streamVars, sendVars, balanceVars, downloaded,
                   timestamp, wire, responding, hashed_headers, shutdownVars, peerVars>>

\* get_headers finds no headers message (the read fails or times out):
\* NodeNotResponding, on which get_peer_header leaves the loop with Ok
NodeNotResponding ==
    /\ ibd = "get_headers"
    /\ responding' = FALSE
    /\ ibd' = "headers_first"
    /\ UNCHANGED <<chainVars, updaterVars, lockVars, streamVars, sendVars, balanceVars, downloaded,
                   timestamp, wire, notified, batch, hashed_headers, shutdownVars, peerVars>>

\* headers_first picks the blocks to download and get_blocks starts the
\* thread that takes their header hashes
SelectBlocks ==
    /\ ibd = "headers_first"
    /\ hashed_headers' =
          LET list == list_of_blocks(blocks, timestamp)
          IN  [i \in DOMAIN list |-> get_hash256d(list[i].header)]
    /\ ibd' = "get_data"
    /\ UNCHANGED <<chainVars, updaterVars, lockVars, streamVars, sendVars, balanceVars, downloaded,
                   timestamp, wire, notified, batch, responding, shutdownVars, peerVars>>

\* BlockDownload::get_data up to the wait for the blocks
GetData ==
    /\ ibd = "get_data"
    /\ IF Len(hashed_headers) >= MAX_HEADERS_COUNT
       THEN /\ ibd' = "RequestedDataTooBig"
            /\ wire' = wire
       ELSE /\ ibd' = "receive_blocks"
            /\ wire' = Append(wire, GetDataMessage(hashed_headers))
    /\ UNCHANGED <<chainVars, updaterVars, lockVars, streamVars, sendVars, balanceVars, downloaded,
                   timestamp, notified, batch, responding, hashed_headers, shutdownVars, peerVars>>

\* A block that carries the header but not the transactions the header
\* commits to
ForgedBlock(header) ==
    [header |-> header, transactions |-> << Tx(((header.nonce + 1) % MaxTx) + 1) >>]

\* The blocks a peer may put in a block message
PeerBlocks ==
    { FullBlock(header) : header \in Headers }
        \cup { ForgedBlock(header) : header \in Headers }

ProgressUpdatingBlockchain(done, total) ==
    [type |-> "ProgressUpdatingBlockchain", done |-> done, total |-> total]

\* receive_blocks: as many block messages as hashes were requested are
\* read, and the block of each is pushed as it comes
ReceiveBlocks ==
    /\ ibd = "receive_blocks"
    /\ downloaded' \in [1..Len(hashed_headers) -> PeerBlocks]
    /\ ibd' = "updating_block_chain"
    /\ UNCHANGED <<chainVars, updaterVars, lockVars, streamVars, sendVars, balanceVars,
                   timestamp, wire, notified, batch, responding, hashed_headers, shutdownVars, peerVars>>

\* get_blocks when get_data returns an error (too many hashes, or a read
\* of receive_blocks fails): the thread returns no block
CannotGetBlock ==
    /\ ibd \in {"RequestedDataTooBig", "receive_blocks"}
    /\ downloaded' = <<>>
    /\ ibd' = "updating_block_chain"
    /\ UNCHANGED <<chainVars, updaterVars, lockVars, streamVars, sendVars, balanceVars,
                   timestamp, wire, notified, batch, responding, hashed_headers, shutdownVars, peerVars>>

\* What the loop of updating_block_chain leaves
Loaded(bs, u, notes) == [blocks |-> bs, utxo |-> u, notified |-> notes]

\* The loop of updating_block_chain from the block of index i on (i counts
\* from 0): a block update_block refuses is passed over; the others go to
\* the UTXO set, and every 50th index is notified
RECURSIVE updating_block_chain_from(_, _, _, _, _)
updating_block_chain_from(bs, lbs, u, received, i) ==
    IF i >= Len(received) THEN Loaded(bs, u, <<>>)
    ELSE
      LET block == received[i + 1]
          updated == update_block(bs, lbs, block)
      IN  IF updated.result # "Ok"
          THEN updating_block_chain_from(bs, lbs, u, received, i + 1)
          ELSE
            LET rest == updating_block_chain_from(updated.blocks, lbs,
                            update_utxo_with_block(u, block), received, i + 1)
            IN  Loaded(rest.blocks, rest.utxo,
                       (IF i % 50 = 0
                        THEN << ProgressUpdatingBlockchain(i, Len(received)) >>
                        ELSE <<>>) \o rest.notified)

\* updating_block_chain: the blocks of the thread are loaded and the last
\* notification is sent
UpdatingBlockChain ==
    /\ ibd = "updating_block_chain"
    /\ LET loaded == updating_block_chain_from(blocks, last_blocks, utxo, downloaded, 0)
           total_blocks == Len(downloaded)
       IN  /\ blocks' = loaded.blocks
           /\ utxo' = loaded.utxo
           /\ notified' = notified \o loaded.notified \o
                  << IF total_blocks = 0
                     THEN ProgressUpdatingBlockchain(1, 1)
                     ELSE ProgressUpdatingBlockchain(total_blocks, total_blocks) >>
    /\ ibd' = "Ok"
    /\ UNCHANGED <<last_blocks, call, result,
                   variant, pending, wallet, emitted, channel, senders, updater,
                   lockVars, streamVars, sendVars, balanceVars, timestamp, wire, batch, responding, hashed_headers,
                   downloaded, shutdownVars, peerVars>>

\* ------------------------------------------------ messages on a stream
\* What a peer sends is a sequence of cells: each frame is the cell of its
\* command name, the cell of its payload size, the cell of its checksum and
\* then the cells of its payload.  A cell stands for the bytes of one field.
CHECKSUM_EMPTY_PAYLOAD == 1576460514

SEND_HEADERS_CHECKSUM == 1576460514

VERACK_CHECKSUM == 1576460514

\* The variants of CommandName the model follows
CommandNames == << "verack", "ping", "pong", "sendheaders", "sendcmpct", "alert" >>

\* The cell of a command name; no payload cell is the cell of a name
CommandCell(name) ==
    MaxByte + (CHOOSE i \in DOMAIN CommandNames : CommandNames[i] = name)

\* The cell of a name that is no variant of CommandName
UnknownCell == MaxByte + Len(CommandNames) + 1

\* hash256d_reduce: the checksum of the empty payload is the constant; two
\* payloads never share a checksum
RECURSIVE hash256d_reduce(_)
hash256d_reduce(bytes) ==
    IF bytes = <<>> THEN CHECKSUM_EMPTY_PAYLOAD
    ELSE IF Len(bytes) = 1 THEN Head(bytes) + 1
    ELSE Head(bytes) + 1 + (MaxByte + 2) * hash256d_reduce(Tail(bytes))

MessageHeader(command_name, payload_size, checksum) ==
    [command_name |-> command_name, payload_size |-> payload_size, checksum |-> checksum]

NoHeader == MessageHeader("none", 0, 0)

PingMessage(nonce) == [type |-> "ping", nonce |-> nonce]
PongMessage(nonce) == [type |-> "pong", nonce |-> nonce]
SendCmpctMessage(announce, version) ==
    [type |-> "sendcmpct", announce |-> announce, version |-> version]
AlertMessage(contents) == [type |-> "alert", contents |-> contents]
SendHeadersMessage == [type |-> "sendheaders"]
VerackMessage == [type |-> "verack"]
NoMessage == [type |-> "none"]

\* The result of reading from a stream: what was read and the number of
\* cells of the stream consumed so far
HeaderRead(res, header, position) ==
    [result |-> res, header |-> header, position |-> position]
MessageRead(res, message, position) ==
    [result |-> res, message |-> message, position |-> position]

\* MessageHeader::deserialize_header: the three cells of a header are read;
\* a name that is no variant of CommandName gives no header
deserialize_header(stream, position) ==
    IF position + 3 > Len(stream)
    THEN HeaderRead("ErrorWhileReading", NoHeader, Len(stream))
    ELSE
      LET known == { i \in DOMAIN CommandNames :
                        CommandCell(CommandNames[i]) = stream[position + 1] }
      IN  IF known = {}
          THEN HeaderRead("ErrorInDeserialization", NoHeader, position + 3)
          ELSE HeaderRead("Ok",
                          MessageHeader(CommandNames[CHOOSE i \in known : TRUE],
                                        stream[position + 2], stream[position + 3]),
                          position + 3)

\* io_deserialize of each message, from a buffer
io_deserialize(command_name, buffer) ==
    CASE command_name = "ping" ->
            IF Len(buffer) >= 1
            THEN [ok |-> TRUE, message |-> PingMessage(buffer[1])]
            ELSE [ok |-> FALSE, message |-> NoMessage]
      [] command_name = "pong" ->
            IF Len(buffer) >= 1
            THEN [ok |-> TRUE, message |-> PongMessage(buffer[1])]
            ELSE [ok |-> FALSE, message |-> NoMessage]
      [] command_name = "sendcmpct" ->
            IF Len(buffer) >= 2
            THEN [ok |-> TRUE, message |-> SendCmpctMessage(buffer[1], buffer[2])]
            ELSE [ok |-> FALSE, message |-> NoMessage]
      [] command_name = "alert" -> [ok |-> TRUE, message |-> AlertMessage(buffer)]
      [] command_name = "sendheaders" -> [ok |-> TRUE, message |-> SendHeadersMessage]
      [] OTHER -> [ok |-> TRUE, message |-> VerackMessage]

\* io_serialize of each message
io_serialize(message) ==
    CASE message.type \in {"ping", "pong"} -> << message.nonce >>
      [] message.type = "sendcmpct" -> << message.announce, message.version >>
      [] message.type = "alert" -> message.contents
      [] OTHER -> <<>>

\* Message::calculate_checksum, which SendHeadersMessage overrides
calculate_checksum(command_name, serialized_message) ==
    IF command_name = "sendheaders" THEN CHECKSUM_EMPTY_PAYLOAD
    ELSE hash256d_reduce(serialized_message)

\* Message::serialize_message: the header of the payload, then the payload
serialize_message(command_name, payload) ==
    << CommandCell(command_name), Len(payload), hash256d_reduce(payload) >> \o payload

\* A read of the payload that goes to the end of the stream
read_to_end(stream, position, header) ==
    [ buffer |-> SubSeq(stream, position + 1, Len(stream)),
      position |-> Len(stream) ]

\* read_exact into a buffer of payload_size cells: the buffer and the
\* position after it
read_payload(stream, position, header) ==
    [ buffer |-> SubSeq(stream, position + 1, position + header.payload_size),
      position |-> position + header.payload_size ]

\* Message::deserialize_message: the payload is read whole into a buffer,
\* the message is read from the buffer and serialized again; the size and
\* the checksum of what was serialized are compared with the header
Message_deserialize_message(command_name, stream, position, header) ==
    IF position + header.payload_size > Len(stream)
    THEN MessageRead("ErrorWhileReading", NoMessage, Len(stream))
    ELSE
      LET payload == read_payload(stream, position, header)
          read == io_deserialize(command_name, payload.buffer)
          serialized_message == io_serialize(read.message)
      IN  IF ~read.ok
          THEN MessageRead("ErrorInDeserialization", NoMessage, payload.position)
          ELSE IF Len(serialized_message) # header.payload_size
          THEN MessageRead("ErrorInDeserialization", NoMessage, payload.position)
          ELSE IF calculate_checksum(command_name, serialized_message) # header.checksum
          THEN MessageRead("ErrorInDeserialization", NoMessage, payload.position)
          ELSE MessageRead("Ok", read.message, payload.position)

\* SendCmpctMessage::deserialize_message: the checksum of the header is
\* compared with SEND_HEADERS_CHECKSUM
SendCmpctMessage_deserialize_message(stream, position, header) ==
    IF position + header.payload_size > Len(stream)
    THEN MessageRead("ErrorWhileReading", NoMessage, Len(stream))
    ELSE
      LET payload == read_payload(stream, position, header)
          read == io_deserialize("sendcmpct", payload.buffer)
      IN  IF ~read.ok
          THEN MessageRead("ErrorInDeserialization", NoMessage, payload.position)
          ELSE IF SEND_HEADERS_CHECKSUM # header.checksum
          THEN MessageRead("ErrorInDeserialization", NoMessage, payload.position)
          ELSE MessageRead("Ok", read.message, payload.position)

\* PongMessage::deserialize_message
PongMessage_deserialize_message(stream, position, header) ==
    IF position + header.payload_size > Len(stream)
    THEN MessageRead("ErrorWhileReading", NoMessage, Len(stream))
    ELSE
      LET payload == read_payload(stream, position, header)
          read == io_deserialize("pong", payload.buffer)
      IN  IF ~read.ok
          THEN MessageRead("ErrorInDeserialization", NoMessage, payload.position)
          ELSE IF hash256d_reduce(io_serialize(read.message)) # header.checksum
          THEN MessageRead("ErrorInDeserialization", NoMessage, payload.position)
          ELSE MessageRead("Ok", read.message, payload.position)

\* VerackMessage::deserialize, called once the name of the message is read:
\* it reads the payload size, then the checksum into num_buffer, and
\* compares receive_checksum, which is left as it was created
VerackMessage_deserialize(stream, position) ==
    IF position + 1 > Len(stream)
    THEN MessageRead("ErrorInDeserialization", NoMessage, Len(stream))
    ELSE IF stream[position + 1] # 0
    THEN MessageRead("ErrorInDeserialization", NoMessage, position + 1)
    ELSE
      LET receive_checksum == 0 IN
      IF position + 2 > Len(stream)
      THEN MessageRead("ErrorInDeserialization", NoMessage, Len(stream))
      ELSE IF receive_checksum # VERACK_CHECKSUM
      THEN MessageRead("ErrorInDeserialization", NoMessage, position + 2)
      ELSE MessageRead("Ok", VerackMessage, position + 2)

\* M::deserialize_message called on the type of the message: the function
\* of the type where it has one, that of Message otherwise
deserialize_message(command_name, stream, position, header) ==
    CASE command_name = "sendcmpct" ->
            SendCmpctMessage_deserialize_message(stream, position, header)
      [] command_name = "pong" ->
            PongMessage_deserialize_message(stream, position, header)
      [] OTHER -> Message_deserialize_message(command_name, stream, position, header)

\* ignore_message, generic in the message: the function of Message
ignore_message(command_name, stream, position, header) ==
    Message_deserialize_message(command_name, stream, position, header)

\* A pong that does not carry the nonce of the ping
answer_ping_with_zero(ping) == PongMessage(0)

\* The pong deserialize_until_found answers a ping with
answer_ping(ping) == PongMessage(ping.nonce)

\* The test of deserialize_until_found on a header
is_searched(header, name) == header.command_name = name

\* A frame as the peer writes it
Frame(command, payload, checksum) ==
    [command |-> command, payload |-> payload, checksum |-> checksum]

\* The payloads a peer puts in a frame of each command: those of the
\* message and some that are not
PayloadsOf(command_name) ==
    CASE command_name \in {"ping", "pong"} ->
            { <<>> } \cup { << nonce >> : nonce \in 0..MaxByte }
      [] command_name = "sendcmpct" -> { << 1, version >> : version \in 0..MaxByte }
      [] command_name = "alert" -> { <<>> } \cup { << byte >> : byte \in 0..MaxByte }
      [] command_name = "sendheaders" -> { <<>>, << 0 >> }
      [] OTHER -> { <<>> }

\* The checksums a peer puts in a frame: that of the payload and one that
\* is the checksum of no payload; for sendcmpct also that of the empty
\* payload
ChecksumsOf(command_name, payload) ==
    { hash256d_reduce(payload), 0 }
        \cup (IF command_name = "sendcmpct" THEN { CHECKSUM_EMPTY_PAYLOAD } ELSE {})

FramesOf(command_name) ==
    UNION { { Frame(CommandCell(command_name), payload, checksum) :
                checksum \in ChecksumsOf(command_name, payload) } :
            payload \in PayloadsOf(command_name) }

\* The frames of the commands of CommandName, and frames of another command
Frames ==
    UNION { FramesOf(CommandNames[i]) : i \in DOMAIN CommandNames }
        \cup { Frame(UnknownCell, payload, hash256d_reduce(payload)) :
                 payload \in { <<>>, << 0 >> } }

\* The cells of a frame, and of a sequence of frames
CellsOf(frame) ==
    << frame.command, Len(frame.payload), frame.checksum >> \o frame.payload

RECURSIVE Cells(_)
Cells(frames) ==
    IF frames = <<>> THEN <<>> ELSE CellsOf(Head(frames)) \o Cells(Tail(frames))

\* The commands a caller of deserialize_until_found looks for
SearchNames == {"verack", "pong", "sendheaders", "sendcmpct"}

\* deserialize_until_found: the header read is the one looked for
Found ==
    /\ search = "searching"
    /\ LET read == deserialize_header(peer_stream, consumed) IN
       /\ read.result = "Ok"
       /\ is_searched(read.header, search_name)
       /\ message_header' = read.header
       /\ consumed' = read.position
    /\ search' = "found"
    /\ UNCHANGED <<chainVars, updaterVars, lockVars, downloadVars, sendVars, balanceVars,
                   sent, peer_stream, written, search_name, decoded, shutdownVars, peerVars>>

\* deserialize_until_found: no header can be read
HeaderFails ==
    /\ search = "searching"
    /\ LET read == deserialize_header(peer_stream, consumed) IN
       /\ read.result # "Ok"
       /\ consumed' = read.position
       /\ search' = read.result
    /\ UNCHANGED <<chainVars, updaterVars, lockVars, downloadVars, sendVars, balanceVars,
                   sent, peer_stream, written, search_name, message_header, decoded, shutdownVars, peerVars>>

\* deserialize_until_found: the header is of another message, which is
\* read and dropped; an error in reading it ends the search
IgnoreMessage ==
    /\ search = "searching"
    /\ LET read == deserialize_header(peer_stream, consumed) IN
       /\ read.result = "Ok"
       /\ ~is_searched(read.header, search_name)
       /\ read.header.command_name # "ping"
       /\ LET ignored == ignore_message(read.header.command_name, peer_stream,
                                        read.position, read.header)
          IN  /\ consumed' = ignored.position
              /\ search' = IF ignored.result = "Ok" THEN "searching" ELSE ignored.result
       /\ message_header' = read.header
    /\ UNCHANGED <<chainVars, updaterVars, lockVars, downloadVars, sendVars, balanceVars,
                   sent, peer_stream, written, search_name, decoded, shutdownVars, peerVars>>

\* deserialize_until_found: the header is of a ping, which is read and
\* answered with a pong before the loop goes on
AnswerPing ==
    /\ search = "searching"
    /\ LET read == deserialize_header(peer_stream, consumed) IN
       /\ read.result = "Ok"
       /\ ~is_searched(read.header, search_name)
       /\ read.header.command_name = "ping"
       /\ LET ping == Message_deserialize_message("ping", peer_stream,
                                                  read.position, read.header)
          IN  /\ consumed' = ping.position
              /\ IF ping.result = "Ok"
                 THEN /\ written' = written \o
                            serialize_message("pong", io_serialize(answer_ping(ping.message)))
                      /\ search' = "searching"
                 ELSE /\ written' = written
                      /\ search' = ping.result
       /\ message_header' = read.header
    /\ UNCHANGED <<chainVars, updaterVars, lockVars, downloadVars, sendVars, balanceVars,
                   sent, peer_stream, search_name, decoded, shutdownVars, peerVars>>

\* The caller reads the message whose header was found
DeserializeMessage ==
    /\ search = "found"
    /\ LET read == deserialize_message(message_header.command_name, peer_stream,
                                       consumed, message_header)
       IN  /\ consumed' = read.position
           /\ decoded' = read.result
    /\ search' = "returned"
    /\ UNCHANGED <<chainVars, updaterVars, lockVars, downloadVars, sendVars, balanceVars,
                   sent, peer_stream, written, search_name, message_header, shutdownVars, peerVars>>

\* A caller that has read the name of a verack reads the rest of it with
\* VerackMessage::deserialize
DeserializeVerack ==
    /\ search = "searching"
    /\ search_name = "verack"
    /\ consumed < Len(peer_stream)
    /\ peer_stream[consumed + 1] = CommandCell("verack")
    /\ LET read == VerackMessage_deserialize(peer_stream, consumed + 1)
       IN  /\ consumed' = read.position
           /\ decoded' = read.result
    /\ search' = "returned"
    /\ UNCHANGED <<chainVars, updaterVars, lockVars, downloadVars, sendVars, balanceVars,
                   sent, peer_stream, written, search_name, message_header, shutdownVars, peerVars>>

NextStream ==
    \/ Found
    \/ HeaderFails
    \/ IgnoreMessage
    \/ AnswerPing
    \/ DeserializeMessage
    \/ DeserializeVerack

\* ------------------------------------------------ sending a transaction
\* i64 addition in a build without overflow checks
wrapping_add(a, b) ==
    IF a + b > I64Max THEN a + b - 2 * (I64Max + 1)
    ELSE IF a + b < 0 - (I64Max + 1) THEN a + b + 2 * (I64Max + 1)
    ELSE a + b

\* i64 addition overflows
overflows(a, b) == a + b > I64Max \/ a + b < 0 - (I64Max + 1)

\* fron_tbtc_to_satoshi of the amounts a user can enter: `as i64` saturates,
\* so an amount too big for an i64 becomes i64::MAX
Amounts == (0..MaxAmount) \cup {I64Max}

\* fron_tbtc_to_satoshi of the fees a user enters
Fees == 0..MaxFee

\* The outputs a UTXO set can hold: one per outpoint, of any owner and value
UtxoEntries ==
    { [outpoint |-> Outpoint(h, 0), output |-> [value |-> v, pk_script |-> a]] :
        h \in 1..MaxOutputs, v \in 1..MaxValue, a \in {"account", "other"} }

\* UTXOSet: no outpoint twice
UtxoSets ==
    { u \in SUBSET UtxoEntries :
        \A e1 \in u, e2 \in u : e1.outpoint = e2.outpoint => e1 = e2 }

\* UTXOSet::get_utxo_list_with_outpoints(Some(address)): the entries whose
\* output pays to the address
get_utxo_list_with_outpoints(u, address) ==
    { e \in u : verify_transaction_output_ownership(address, e.output) }

\* available_outputs.sort_by(b.value.cmp(a.value)): the list comes in the
\* order of a HashMap and the sort is stable, so every order of the entries
\* that descends in value can come out
sort_by_value(entries) ==
    { s \in [1..Cardinality(entries) -> entries] :
        /\ \A i \in DOMAIN s, j \in DOMAIN s : s[i] = s[j] => i = j
        /\ \A i \in DOMAIN s, j \in DOMAIN s :
               i < j => s[i].output.value >= s[j].output.value }

RECURSIVE SumValues(_)
SumValues(outputs) ==
    IF outputs = <<>> THEN 0
    ELSE Head(outputs).output.value + SumValues(Tail(outputs))

\* The loop of create_transaction: each output is added and pushed, then
\* the sum is compared with amount + fee
RECURSIVE accumulate(_, _, _, _)
accumulate(available_outputs, needed, input_amount, outputs_to_spend) ==
    IF available_outputs = <<>>
    THEN [input_amount |-> input_amount, outputs_to_spend |-> outputs_to_spend]
    ELSE LET sum == input_amount + Head(available_outputs).output.value
             spend == Append(outputs_to_spend, Head(available_outputs))
         IN  IF sum >= needed
             THEN [input_amount |-> sum, outputs_to_spend |-> spend]
             ELSE accumulate(Tail(available_outputs), needed, sum, spend)

NoTransaction == [time |-> 0, tx_in |-> <<>>, tx_out |-> <<>>]

\* Transaction::from_account_to_address: one input per output spent, an
\* output of the amount to the address and, unless it is zero, one of the
\* change to the account
from_account_to_address(account, outputs_to_spend, to, value, paid_fee) ==
    LET change == wrapping_add(wrapping_add(SumValues(outputs_to_spend), 0 - value),
                               0 - paid_fee)
    IN  [ time   |-> 0,
          tx_in  |-> [i \in DOMAIN outputs_to_spend |-> outputs_to_spend[i].outpoint],
          tx_out |-> << [value |-> value, pk_script |-> to] >> \o
                     (IF change = 0 THEN <<>>
                      ELSE << [value |-> change, pk_script |-> account] >>) ]

Created(res, outputs_to_spend, transaction) ==
    [res |-> res, outputs_to_spend |-> outputs_to_spend, transaction |-> transaction]

\* Account::create_transaction on the sorted outputs; signs is whether
\* from_account_to_address can sign the inputs
Account_create_transaction(account, to, value, paid_fee, available_outputs, signs) ==
    LET needed == wrapping_add(value, paid_fee)
        sum == accumulate(available_outputs, needed, 0, <<>>)
    IN  IF overflows(value, paid_fee) /\ overflow_checks
        THEN Created("panic", <<>>, NoTransaction)
        ELSE IF sum.input_amount < needed
        THEN Created("NotEnoughFunds", <<>>, NoTransaction)
        ELSE IF ~signs
        THEN Created("CannotCreateNewTransaction", <<>>, NoTransaction)
        ELSE Created("Ok", sum.outputs_to_spend,
                     from_account_to_address(account, sum.outputs_to_spend, to,
                                             value, paid_fee))

\* transaction::create_transaction: the error of the account as sending_transaction sees it
transaction_create_transaction(outcome) ==
    CASE outcome.res = "NotEnoughFunds" -> "TransactionWithoutSufficientFunds"
      [] outcome.res = "CannotCreateNewTransaction" -> "TransactionCreationFail"
      [] OTHER -> outcome.res

\* sending_transaction hands over whatever create_transaction returned
send_anyway(outcome) == << outcome.transaction >>

\* sending_transaction: the transaction it hands to broadcasting
send_transaction(outcome) ==
    IF transaction_create_transaction(outcome) = "Ok" THEN << outcome.transaction >> ELSE <<>>

\* sending_transaction: what it prints
println(outcome) ==
    IF transaction_create_transaction(outcome) = "TransactionWithoutSufficientFunds"
    THEN << "Transaction without sufficient funds" >>
    ELSE <<>>

\* sending_transaction, from the menu of user_input to the menu again (or
\* to the end of the thread)
SendingTransaction ==
    /\ tui = "menu"
    /\ Len(handed) + Len(printed) < MaxSends
    /\ IF selected_account = "None"
       THEN /\ printed' = Append(printed, "No account selected can't send transaction")
            /\ UNCHANGED <<amount, fee, available, created, handed, tui>>
       ELSE \E value \in Amounts, paid_fee \in Fees, signs \in BOOLEAN, delivered \in BOOLEAN :
            \E available_outputs \in
                   sort_by_value(get_utxo_list_with_outpoints(utxo, selected_account)) :
                LET outcome == Account_create_transaction(selected_account, "other", value,
                                                         paid_fee, available_outputs, signs)
                IN  /\ amount' = value
                    /\ fee' = paid_fee
                    /\ available' = available_outputs
                    /\ created' = outcome
                    /\ handed' = handed \o send_transaction(outcome)
                    /\ printed' = printed \o println(outcome)
                    /\ tui' = CASE transaction_create_transaction(outcome) = "panic" -> "panicked"
                                [] transaction_create_transaction(outcome) = "TransactionCreationFail"
                                       -> "failed"
                                [] transaction_create_transaction(outcome) = "Ok" /\ ~delivered -> "failed"
                                [] OTHER -> "menu"
    /\ UNCHANGED <<chainVars, updaterVars, lockVars, downloadVars, streamVars, balanceVars,
                   overflow_checks, selected_account, shutdownVars, peerVars>>

\* ------------------------------------ showing the balance while blocks arrive
\* tui/user_response.rs, receive_block, its first statement: the
\* transactions of the block leave pending_transactions under the guard of
\* that list, which is dropped at the end of the statement
RetainPending ==
    /\ variant = "tui"
    /\ updater = "running"
    /\ receiving = <<>>
    /\ channel # <<>>
    /\ Head(channel).type = "Block"
    /\ channel' = Tail(channel)
    /\ receiving' = << Head(channel).block >>
    /\ emitted' =
          MapSeq(TransactionOfAccountInNewBlock,
                 SelectSeq(pending, LAMBDA transaction :
                               transaction \in Range(Head(channel).block.transactions)))
    /\ pending' =
          SelectSeq(pending, LAMBDA transaction :
                        transaction \notin Range(Head(channel).block.transactions))
    /\ UNCHANGED <<chainVars, variant, utxo, wallet, senders, updater, lockVars,
                   downloadVars, streamVars, sendVars, showing, confirmed, shown, shutdownVars, peerVars>>

\* receive_block, the rest: once it has the guards of the UTXO set and of
\* the chain it updates the UTXO set and appends the block
UpdateUtxoAndAppend ==
    /\ receiving # <<>>
    /\ showing = "menu"
    /\ utxo' = update_utxo_with_block(utxo, receiving[1])
    /\ AppendReceived(receiving[1])
    /\ receiving' = <<>>
    /\ UNCHANGED <<variant, pending, wallet, emitted, channel, senders, lockVars,
                   downloadVars, streamVars, sendVars, showing, confirmed, shown, shutdownVars, peerVars>>

\* receive_transaction, between two blocks.  Its loop over the wallet runs
\* under the wallet guard and its push under the guard of the list; the
\* wallet does not change here, so the two are one step.
ReceiveTransactionBetweenBlocks ==
    /\ receiving = <<>>
    /\ TuiReceiveTransaction

\* The transactions get_balance_in_satoshis counts: those with an output
\* among the outputs added up
CountedAsConfirmed(outputs) ==
    { transaction \in Transactions :
        \E e \in outputs : e.outpoint.hash = TxId(transaction) }

\* The transactions calculate_pending_balance counts
CountedAsPending(account) ==
    { transaction \in Range(pending) : verify_transaction_ownership(account, transaction) }

\* The transactions the node has received: the pending ones, those of the
\* blocks of the chain, and those that left the pending list for the block
\* being handled
ReceivedTransactions ==
    Range(pending)
      \cup UNION { Range(blocks[i].block.transactions) : i \in DOMAIN blocks }
      \cup (IF receiving = <<>> THEN {}
            ELSE { transaction \in Range(receiving[1].transactions) :
                     TransactionOfAccountInNewBlock(transaction) \in Range(emitted) })

\* The transactions with an output that a block of the chain, or the block
\* being handled, spends
SpentTransactions ==
    LET applied == { blocks[i].block : i \in DOMAIN blocks } \cup Range(receiving)
    IN  { transaction \in Transactions :
            \E block \in applied : \E i \in DOMAIN block.transactions :
                \E n \in DOMAIN block.transactions[i].tx_in :
                    block.transactions[i].tx_in[n].hash = TxId(transaction) }

NothingShown == [asked |-> FALSE, confirmed |-> {}, pending |-> {}, received |-> {}]

\* showing_balance up to get_balance_in_satoshis: the guards of the wallet
\* and of the UTXO set are taken and the outputs of the account added up.
\* An updater inside an append_block that never returns keeps the UTXO
\* guard.
GetBalance ==
    /\ showing = "menu"
    /\ updater # "hung"
    /\ showing' = "balance"
    /\ confirmed' = get_utxo_list_with_outpoints(utxo, wallet[1])
    /\ UNCHANGED <<chainVars, updaterVars, lockVars, downloadVars, streamVars, sendVars,
                   receiving, shown, shutdownVars, peerVars>>

\* showing_balance, calculate_pending_balance and the println: the pending
\* list is read under its own guard, the UTXO guard still held
CalculatePendingBalance ==
    /\ showing = "balance"
    /\ showing' = "menu"
    /\ shown' = [ asked |-> TRUE,
                  confirmed |-> CountedAsConfirmed(confirmed),
                  pending |-> CountedAsPending(wallet[1]),
                  received |-> { transaction \in ReceivedTransactions \ SpentTransactions :
                                   verify_transaction_ownership(wallet[1], transaction) } ]
    /\ UNCHANGED <<chainVars, updaterVars, lockVars, downloadVars, streamVars, sendVars,
                   receiving, confirmed, shutdownVars, peerVars>>

NextBalance ==
    \/ PeerSend
    \/ RetainPending
    \/ UpdateUtxoAndAppend
    \/ ReceiveTransactionBetweenBlocks
    \/ GetBalance
    \/ CalculatePendingBalance

\* ------------------------------------------------- the end of the run
\* tui/execution.rs, program_execution, from user_input to SaveSystem::new

\* The threads that hold a clone of the Arc around the chain (and of the one
\* around the wallet): program_execution itself, the chain updater for as
\* long as its closure lives, and user_input for as long as it runs
Holders ==
    {"program_execution"}
        \cup (IF updater \in {"running", "hung"} THEN {"handle_peers"} ELSE {})
        \cup (IF execution = "user_input" THEN {"user_input"} ELSE {})

NothingSaved == [taken |-> FALSE, blocks |-> <<>>, last_blocks |-> <<>>, wallet |-> <<>>]

\* user_input returns: Ok after Exit, or the error one of its commands left
\* through `?`, with which program_execution returns at once
UserInputReturns ==
    /\ execution = "user_input"
    /\ \E returned \in {"Ok", "Err"} :
          execution' = IF returned = "Ok" THEN "destroy" ELSE "error"
    /\ UNCHANGED <<chainVars, updaterVars, lockVars, downloadVars, streamVars, sendVars,
                   balanceVars, save_system, peerVars>>

\* broadcasting.destroy(): every peer thread is told to stop and is joined;
\* broadcasting and its sender are dropped at the end of the block
BroadcastingDestroy ==
    /\ execution = "destroy"
    /\ senders = 0
    /\ \E returned \in {"Ok", "Err"} :
          execution' = IF returned = "Ok" THEN "join" ELSE "error"
    /\ UNCHANGED <<chainVars, updaterVars, lockVars, downloadVars, streamVars, sendVars,
                   balanceVars, save_system, peerVars>>

\* A join that returns whatever the thread is doing
join_without_waiting(thread) == TRUE

\* JoinHandle::join returns once the thread has ended
join(thread) == thread \in {"done", "failed"}

\* handle.join(): the updater's Result is dropped, only a panic is looked at
HandleJoin ==
    /\ execution = "join"
    /\ join(updater)
    /\ execution' = "get_inner"
    /\ UNCHANGED <<chainVars, updaterVars, lockVars, downloadVars, streamVars, sendVars,
                   balanceVars, save_system, peerVars>>

\* Arc::try_unwrap gives the value only to the last holder of the Arc
try_unwrap(holders) == IF holders = {"program_execution"} THEN "Ok" ELSE "Err"

\* get_inner(block_chain)?, get_inner(wallet)? and SaveSystem::new
GetInner ==
    /\ execution = "get_inner"
    /\ IF try_unwrap(Holders) = "Ok"
       THEN /\ save_system' = [taken |-> TRUE, blocks |-> blocks,
                               last_blocks |-> last_blocks, wallet |-> wallet]
            /\ execution' = "saved"
       ELSE /\ save_system' = save_system
            /\ execution' = "todo"
    /\ UNCHANGED <<chainVars, updaterVars, lockVars, downloadVars, streamVars, sendVars,
                   balanceVars, peerVars>>

NextShutdown ==
    \/ ProcessReceiveBlock
    \/ ProcessReceiveTransaction
    \/ TuiReceiveBlock
    \/ TuiReceiveTransaction
    \/ UpdaterExit
    \/ PeerSend
    \/ PeerTerminate
    \/ UserInputReturns
    \/ BroadcastingDestroy
    \/ HandleJoin
    \/ GetInner

\* ------------------------------------------------------- one peer's task
\* PeerManager::connecting_to_peer with the command channel of the peer

\* MessageToPeer
SendTransaction(transaction) == [type |-> "SendTransaction", transaction |-> transaction]
Stop == [type |-> "Stop"]
MessagesToPeer == { SendTransaction(transaction) : transaction \in Transactions } \cup {Stop}

\* The ConnectionId of the peer whose task is followed
ThePeer == 1

\* broadcasting sends a command to the peer: a transaction to send, or Stop
\* when it is destroyed, after which it sends nothing
SendToPeer ==
    /\ Len(queued) < MaxCommands
    /\ Stop \notin Range(queued)
    /\ \E command \in MessagesToPeer :
          /\ commands' = Append(commands, command)
          /\ queued' = Append(queued, command)
    /\ UNCHANGED <<chainVars, updaterVars, lockVars, downloadVars, streamVars, sendVars,
                   balanceVars, shutdownVars, incoming, outgoing, peer_manager>>

\* The peer sends a block or a transaction
PeerArrives ==
    /\ Len(channel) + Len(incoming) < MaxArrivals
    /\ \E message \in Messages :
          /\ message.id = ThePeer
          /\ incoming' = Append(incoming, message)
    /\ UNCHANGED <<chainVars, updaterVars, lockVars, downloadVars, streamVars, sendVars,
                   balanceVars, shutdownVars, commands, queued, outgoing, peer_manager>>

\* The task reads the socket: the next message of the peer goes to the
\* response channel; with nothing to read it goes on at once
PeerRead ==
    /\ peer_manager = "read"
    /\ IF incoming = <<>>
       THEN UNCHANGED <<incoming, channel>>
       ELSE /\ incoming' = Tail(incoming)
            /\ channel' = Append(channel, Head(incoming))
    /\ peer_manager' = "command"
    /\ UNCHANGED <<chainVars, variant, utxo, pending, wallet, emitted, senders, updater,
                   lockVars, downloadVars, streamVars, sendVars, balanceVars, shutdownVars,
                   commands, queued, outgoing>>

\* A task that looks for Stop before anything else on its command channel
PeerCommandStopFirst ==
    /\ peer_manager = "command"
    /\ IF Stop \in Range(commands)
       THEN /\ commands' = <<>>
            /\ outgoing' = outgoing
            /\ peer_manager' = "stopped"
       ELSE IF commands = <<>>
       THEN /\ UNCHANGED <<commands, outgoing>>
            /\ peer_manager' = "read"
       ELSE /\ commands' = Tail(commands)
            /\ outgoing' = Append(outgoing, Head(commands).transaction)
            /\ peer_manager' = "read"
    /\ UNCHANGED <<chainVars, updaterVars, lockVars, downloadVars, streamVars, sendVars,
                   balanceVars, shutdownVars, queued, incoming>>

\* The task takes the oldest command, if there is one: it writes the
\* transaction to the socket, or on Stop it ends and hands back its stream
PeerCommand ==
    /\ peer_manager = "command"
    /\ IF commands = <<>>
       THEN /\ UNCHANGED <<commands, outgoing>>
            /\ peer_manager' = "read"
       ELSE /\ commands' = Tail(commands)
            /\ IF Head(commands) = Stop
               THEN /\ outgoing' = outgoing
                    /\ peer_manager' = "stopped"
               ELSE /\ outgoing' = Append(outgoing, Head(commands).transaction)
                    /\ peer_manager' = "read"
    /\ UNCHANGED <<chainVars, updaterVars, lockVars, downloadVars, streamVars, sendVars,
                   balanceVars, shutdownVars, queued, incoming>>

NextPeer == SendToPeer \/ PeerArrives \/ PeerRead \/ PeerCommand

\* BlockChain::new on the genesis block, the UTXO set of that chain, the
\* wallet, the response channel with its senders, and the threads idle
Init ==
    /\ blocks = << NodeChain_first(Block_new(Genesis)) >>
    /\ last_blocks = <<1>>
    /\ call = [op |-> "new"]
    /\ result = "Ok"
    /\ variant \in {"process", "tui"}
    /\ utxo = {}
    /\ pending = <<>>
    /\ wallet = << "account" >>
    /\ emitted = <<>>
    /\ channel = <<>>
    /\ senders = MaxPeers
    /\ updater = "running"
    /\ plan = [thread \in Threads |-> <<>>]
    /\ held = [thread \in Threads |-> <<>>]
    /\ timestamp = 0
    /\ ibd = "idle"
    /\ wire = <<>>
    /\ notified = <<>>
    /\ batch = <<>>
    /\ responding = TRUE
    /\ hashed_headers = <<>>
    /\ downloaded = <<>>
    /\ sent = <<>>
    /\ peer_stream = <<>>
    /\ consumed = 0
    /\ written = <<>>
    /\ search_name = "verack"
    /\ search = "idle"
    /\ message_header = NoHeader
    /\ decoded = "none"
    /\ overflow_checks = FALSE
    /\ selected_account = "None"
    /\ amount = 0
    /\ fee = 0
    /\ available = <<>>
    /\ created = Created("none", <<>>, NoTransaction)
    /\ handed = <<>>
    /\ printed = <<>>
    /\ tui = "menu"
    /\ receiving = <<>>
    /\ showing = "menu"
    /\ confirmed = {}
    /\ shown = NothingShown
    /\ execution = "user_input"
    /\ save_system = NothingSaved
    /\ commands = <<>>
    /\ queued = <<>>
    /\ incoming = <<>>
    /\ outgoing = <<>>
    /\ peer_manager = "read"

Next ==
    \/ ProcessReceiveBlock
    \/ ProcessReceiveTransaction
    \/ TuiReceiveBlock
    \/ TuiReceiveTransaction
    \/ UpdaterExit
    \/ PeerSend
    \/ PeerTerminate

Spec == Init /\ [][Next]_vars

\* One peer's task, its peer and the broadcasting that commands it
SpecPeer == Init /\ [][NextPeer]_vars

\* The run from the command loop to the save step
SpecShutdown == Init /\ [][NextShutdown]_vars

\* The calls on a BlockChain alone, whoever makes them
NextChain == AppendHeader \/ AppendBlock \/ UpdateBlock

InitChainOnly ==
    /\ blocks = << NodeChain_first(Block_new(Genesis)) >>
    /\ last_blocks = <<1>>
    /\ call = [op |-> "new"]
    /\ result = "Ok"
    /\ variant = "process"
    /\ utxo = {}
    /\ pending = <<>>
    /\ wallet = << "account" >>
    /\ emitted = <<>>
    /\ channel = <<>>
    /\ senders = MaxPeers
    /\ updater = "running"
    /\ plan = [thread \in Threads |-> <<>>]
    /\ held = [thread \in Threads |-> <<>>]
    /\ timestamp = 0
    /\ ibd = "idle"
    /\ wire = <<>>
    /\ notified = <<>>
    /\ batch = <<>>
    /\ responding = TRUE
    /\ hashed_headers = <<>>
    /\ downloaded = <<>>
    /\ sent = <<>>
    /\ peer_stream = <<>>
    /\ consumed = 0
    /\ written = <<>>
    /\ search_name = "verack"
    /\ search = "idle"
    /\ message_header = NoHeader
    /\ decoded = "none"
    /\ overflow_checks = FALSE
    /\ selected_account = "None"
    /\ amount = 0
    /\ fee = 0
    /\ available = <<>>
    /\ created = Created("none", <<>>, NoTransaction)
    /\ handed = <<>>
    /\ printed = <<>>
    /\ tui = "menu"
    /\ receiving = <<>>
    /\ showing = "menu"
    /\ confirmed = {}
    /\ shown = NothingShown
    /\ execution = "user_input"
    /\ save_system = NothingSaved
    /\ commands = <<>>
    /\ queued = <<>>
    /\ incoming = <<>>
    /\ outgoing = <<>>
    /\ peer_manager = "read"

SpecChain == InitChainOnly /\ [][NextChain]_vars

\* The threads of one build taking and dropping the mutexes
SpecLocks == Init /\ [][NextLocks]_vars

\* The initial download with one peer.  The chain it starts from is the
\* genesis block alone or, as after an earlier download, the genesis block
\* and a block that holds its transactions.
NextDownload ==
    \/ SendGetHeaders
    \/ ReceiveHeaders
    \/ NodeNotResponding
    \/ SelectBlocks
    \/ GetData
    \/ ReceiveBlocks
    \/ CannotGetBlock
    \/ UpdatingBlockChain

InitDownload ==
    /\ blocks \in { << NodeChain_first(Block_new(Genesis)) >>,
                    << NodeChain_first(Block_new(Genesis)),
                       NodeChain_new(FullBlock(BlockHeader_new(1, 0)), 1) >> }
    /\ last_blocks = << Len(blocks) >>
    /\ call = [op |-> "new"]
    /\ result = "Ok"
    /\ variant = "process"
    /\ utxo = update_utxo_with_transactions({}, blocks[Len(blocks)].block.transactions)
    /\ pending = <<>>
    /\ wallet = << "account" >>
    /\ emitted = <<>>
    /\ channel = <<>>
    /\ senders = MaxPeers
    /\ updater = "running"
    /\ plan = [thread \in Threads |-> <<>>]
    /\ held = [thread \in Threads |-> <<>>]
    /\ timestamp \in 0..MaxTime
    /\ ibd = "get_peer_header"
    /\ wire = <<>>
    /\ notified = <<>>
    /\ batch = <<>>
    /\ responding = TRUE
    /\ hashed_headers = <<>>
    /\ downloaded = <<>>
    /\ sent = <<>>
    /\ peer_stream = <<>>
    /\ consumed = 0
    /\ written = <<>>
    /\ search_name = "verack"
    /\ search = "idle"
    /\ message_header = NoHeader
    /\ decoded = "none"
    /\ overflow_checks = FALSE
    /\ selected_account = "None"
    /\ amount = 0
    /\ fee = 0
    /\ available = <<>>
    /\ created = Created("none", <<>>, NoTransaction)
    /\ handed = <<>>
    /\ printed = <<>>
    /\ tui = "menu"
    /\ receiving = <<>>
    /\ showing = "menu"
    /\ confirmed = {}
    /\ shown = NothingShown
    /\ execution = "user_input"
    /\ save_system = NothingSaved
    /\ commands = <<>>
    /\ queued = <<>>
    /\ incoming = <<>>
    /\ outgoing = <<>>
    /\ peer_manager = "read"

SpecDownload == InitDownload /\ [][NextDownload]_vars

\* get_data alone, on any number of hashes up to MaxSelected and around
\* MAX_HEADERS_COUNT
GetDataSizes ==
    (0..MaxSelected)
        \cup ((MAX_HEADERS_COUNT - MaxSelected)..(MAX_HEADERS_COUNT + MaxSelected))

InitGetData ==
    /\ blocks = << NodeChain_first(Block_new(Genesis)) >>
    /\ last_blocks = <<1>>
    /\ call = [op |-> "new"]
    /\ result = "Ok"
    /\ variant = "process"
    /\ utxo = {}
    /\ pending = <<>>
    /\ wallet = << "account" >>
    /\ emitted = <<>>
    /\ channel = <<>>
    /\ senders = MaxPeers
    /\ updater = "running"
    /\ plan = [thread \in Threads |-> <<>>]
    /\ held = [thread \in Threads |-> <<>>]
    /\ timestamp = 0
    /\ ibd = "get_data"
    /\ wire = <<>>
    /\ notified = <<>>
    /\ batch = <<>>
    /\ responding = TRUE
    /\ downloaded = <<>>
    /\ sent = <<>>
    /\ peer_stream = <<>>
    /\ consumed = 0
    /\ written = <<>>
    /\ search_name = "verack"
    /\ search = "idle"
    /\ message_header = NoHeader
    /\ decoded = "none"
    /\ overflow_checks = FALSE
    /\ selected_account = "None"
    /\ amount = 0
    /\ fee = 0
    /\ available = <<>>
    /\ created = Created("none", <<>>, NoTransaction)
    /\ handed = <<>>
    /\ printed = <<>>
    /\ tui = "menu"
    /\ receiving = <<>>
    /\ showing = "menu"
    /\ confirmed = {}
    /\ shown = NothingShown
    /\ execution = "user_input"
    /\ save_system = NothingSaved
    /\ commands = <<>>
    /\ queued = <<>>
    /\ incoming = <<>>
    /\ outgoing = <<>>
    /\ peer_manager = "read"
    /\ \E n \in GetDataSizes : hashed_headers = [i \in 1..n |-> i]

SpecGetData == InitGetData /\ [][GetData]_vars

\* A node looking for a message on the stream of a peer that has written
\* up to MaxFrames frames
InitStream ==
    /\ blocks = << NodeChain_first(Block_new(Genesis)) >>
    /\ last_blocks = <<1>>
    /\ call = [op |-> "new"]
    /\ result = "Ok"
    /\ variant = "process"
    /\ utxo = {}
    /\ pending = <<>>
    /\ wallet = << "account" >>
    /\ emitted = <<>>
    /\ channel = <<>>
    /\ senders = MaxPeers
    /\ updater = "running"
    /\ plan = [thread \in Threads |-> <<>>]
    /\ held = [thread \in Threads |-> <<>>]
    /\ timestamp = 0
    /\ ibd = "idle"
    /\ wire = <<>>
    /\ notified = <<>>
    /\ batch = <<>>
    /\ responding = TRUE
    /\ hashed_headers = <<>>
    /\ downloaded = <<>>
    /\ sent \in UNION { [1..n -> Frames] : n \in 1..MaxFrames }
    /\ peer_stream = Cells(sent)
    /\ consumed = 0
    /\ written = <<>>
    /\ search_name \in SearchNames
    /\ search = "searching"
    /\ message_header = NoHeader
    /\ decoded = "none"
    /\ overflow_checks = FALSE
    /\ selected_account = "None"
    /\ amount = 0
    /\ fee = 0
    /\ available = <<>>
    /\ created = Created("none", <<>>, NoTransaction)
    /\ handed = <<>>
    /\ printed = <<>>
    /\ tui = "menu"
    /\ receiving = <<>>
    /\ showing = "menu"
    /\ confirmed = {}
    /\ shown = NothingShown
    /\ execution = "user_input"
    /\ save_system = NothingSaved
    /\ commands = <<>>
    /\ queued = <<>>
    /\ incoming = <<>>
    /\ outgoing = <<>>
    /\ peer_manager = "read"

SpecStream == InitStream /\ [][NextStream]_vars

\* A user at the menu of a wallet whose UTXO set holds up to MaxOutputs
\* outputs, with one transaction pending
InitSend ==
    /\ blocks = << NodeChain_first(Block_new(Genesis)) >>
    /\ last_blocks = <<1>>
    /\ call = [op |-> "new"]
    /\ result = "Ok"
    /\ variant = "tui"
    /\ utxo \in UtxoSets
    /\ pending = << Tx(MaxTx) >>
    /\ wallet = << "account" >>
    /\ emitted = <<>>
    /\ channel = <<>>
    /\ senders = MaxPeers
    /\ updater = "running"
    /\ plan = [thread \in Threads |-> <<>>]
    /\ held = [thread \in Threads |-> <<>>]
    /\ timestamp = 0
    /\ ibd = "idle"
    /\ wire = <<>>
    /\ notified = <<>>
    /\ batch = <<>>
    /\ responding = TRUE
    /\ hashed_headers = <<>>
    /\ downloaded = <<>>
    /\ sent = <<>>
    /\ peer_stream = <<>>
    /\ consumed = 0
    /\ written = <<>>
    /\ search_name = "verack"
    /\ search = "idle"
    /\ message_header = NoHeader
    /\ decoded = "none"
    /\ overflow_checks \in BOOLEAN
    /\ selected_account \in {"account", "None"}
    /\ amount = 0
    /\ fee = 0
    /\ available = <<>>
    /\ created = Created("none", <<>>, NoTransaction)
    /\ handed = <<>>
    /\ printed = <<>>
    /\ tui = "menu"
    /\ receiving = <<>>
    /\ showing = "menu"
    /\ confirmed = {}
    /\ shown = NothingShown
    /\ execution = "user_input"
    /\ save_system = NothingSaved
    /\ commands = <<>>
    /\ queued = <<>>
    /\ incoming = <<>>
    /\ outgoing = <<>>
    /\ peer_manager = "read"

SpecSend == InitSend /\ [][SendingTransaction]_vars

\* The tui with one account, the chain updater and the front-end running,
\* before any message of a peer
InitBalance ==
    /\ blocks = << NodeChain_first(Block_new(Genesis)) >>
    /\ last_blocks = <<1>>
    /\ call = [op |-> "new"]
    /\ result = "Ok"
    /\ variant = "tui"
    /\ utxo = {}
    /\ pending = <<>>
    /\ wallet = << "account" >>
    /\ emitted = <<>>
    /\ channel = <<>>
    /\ senders = MaxPeers
    /\ updater = "running"
    /\ plan = [thread \in Threads |-> <<>>]
    /\ held = [thread \in Threads |-> <<>>]
    /\ timestamp = 0
    /\ ibd = "idle"
    /\ wire = <<>>
    /\ notified = <<>>
    /\ batch = <<>>
    /\ responding = TRUE
    /\ hashed_headers = <<>>
    /\ downloaded = <<>>
    /\ sent = <<>>
    /\ peer_stream = <<>>
    /\ consumed = 0
    /\ written = <<>>
    /\ search_name = "verack"
    /\ search = "idle"
    /\ message_header = NoHeader
    /\ decoded = "none"
    /\ overflow_checks = FALSE
    /\ selected_account = "None"
    /\ amount = 0
    /\ fee = 0
    /\ available = <<>>
    /\ created = Created("none", <<>>, NoTransaction)
    /\ handed = <<>>
    /\ printed = <<>>
    /\ tui = "menu"
    /\ receiving = <<>>
    /\ showing = "menu"
    /\ confirmed = {}
    /\ shown = NothingShown
    /\ execution = "user_input"
    /\ save_system = NothingSaved
    /\ commands = <<>>
    /\ queued = <<>>
    /\ incoming = <<>>
    /\ outgoing = <<>>
    /\ peer_manager = "read"

SpecBalance == InitBalance /\ [][NextBalance]_vars

\* ------------------------------------------------ claims about the chain
InChain(block) == \E i \in DOMAIN blocks : is_equal(blocks[i], block)

ParentInChain(block) == \E i \in DOMAIN blocks : is_previous_of(blocks[i], block)

\* A step in which append_header or append_block was called
AppendCalled ==
    /\ call'.op \in {"append_header", "append_block"}
    /\ chainVars' # chainVars

\* C1: every node other than the root has a parent index that refers to an
\* existing node whose header hash is the node's previous_block_header_hash.
C1_ParentIsPrevious ==
    \A i \in 2..Len(blocks) :
        /\ blocks[i].index_previous_node \in DOMAIN blocks
        /\ blocks[blocks[i].index_previous_node].header_hash
              = blocks[i].block.header.previous_block_header_hash

\* C2: appending a new header whose previous hash is the identity of any
\* node of the chain (a tip or an interior node at any depth) succeeds and
\* adds exactly one node; CouldNotAppendBlock is returned, with the chain
\* unchanged, only when no node has that identity.
C2_AppendLinksToAnyNode ==
    [][ AppendCalled =>
          /\ (ParentInChain(call'.block) /\ ~InChain(call'.block))
                => /\ result' = "Ok"
                   /\ Len(blocks') = Len(blocks) + 1
          /\ result' = "CouldNotAppendBlock"
                => /\ ~ParentInChain(call'.block)
                   /\ blocks' = blocks
                   /\ last_blocks' = last_blocks ]_vars

\* C3: append_block(B) called a second time right after append_block(B)
\* returns TransactionAlreadyInBlock and leaves the node vector and the tip
\* list as the first call left them.
C3_SecondAppendIsNoOp ==
    [][ ( /\ AppendCalled
          /\ call.op = "append_block"
          /\ call' = call
          /\ result = "Ok" )
        => /\ result' = "TransactionAlreadyInBlock"
           /\ blocks' = blocks
           /\ last_blocks' = last_blocks ]_vars

\* ---------------------------------------- claims about the chain updater
\* A step in which the chain updater received a message of the type
Handles(type) ==
    /\ updater = "running"
    /\ channel # <<>>
    /\ Head(channel).type = type
    /\ channel' = Tail(channel)

\* The block is a block of the chain
BlockInChain(block) == \E i \in DOMAIN blocks : blocks[i].block = block

Count(seq, x) == Cardinality({ i \in DOMAIN seq : seq[i] = x })

\* C4: handling a block that is already in the chain leaves the chain, the
\* UTXO set and the pending transactions as they were, and the updater goes
\* on to the next message.
C4_KnownBlockIsNoOp ==
    [][ (Handles("Block") /\ BlockInChain(Head(channel).block))
        => /\ blocks' = blocks
           /\ last_blocks' = last_blocks
           /\ utxo' = utxo
           /\ pending' = pending
           /\ updater' = "running" ]_vars

\* C5: the chain updater has left its loop only if the response channel is
\* closed: every sender is dropped and no message is left.
C5_ExitsOnlyWhenClosed ==
    updater \in {"done", "failed"} => (senders = 0 /\ channel = <<>>)

\* C6: NewBlockAddedToTheBlockchain(B) is emitted only for a block B that
\* the handler appended to the chain.
C6_NewBlockOnlyAfterAppend ==
    \A i \in DOMAIN emitted :
        emitted[i].type = "NewBlockAddedToTheBlockchain"
            => /\ call = [op |-> "append_block", block |-> emitted[i].block]
               /\ result = "Ok"

\* No transaction of a block of the chain is pending
NoAppliedPending ==
    \A i \in DOMAIN pending : \A j \in DOMAIN blocks :
        pending[i] \notin Range(blocks[j].block.transactions)

\* C7: handling a block removes every pending transaction the block
\* contains, emitting exactly one TransactionOfAccountInNewBlock for it,
\* and keeps every other pending transaction; no transaction of an applied
\* block is ever pending.
C7_BlockClearsPending ==
    [][ /\ Handles("Block")
          => LET block == Head(channel).block IN
             /\ \A t \in Range(pending) \cap Range(block.transactions) :
                   /\ t \notin Range(pending')
                   /\ Count(emitted', TransactionOfAccountInNewBlock(t)) = 1
             /\ pending' = SelectSeq(pending, LAMBDA t :
                                         t \notin Range(block.transactions))
        /\ NoAppliedPending' ]_vars

OwnedByWallet(transaction) ==
    \E i \in DOMAIN wallet : verify_transaction_ownership(wallet[i], transaction)

\* C8: a received transaction that no account of the wallet owns leaves the
\* pending transactions as they were and emits nothing.
C8_UnownedIsIgnored ==
    [][ (Handles("Transaction") /\ ~OwnedByWallet(Head(channel).transaction))
        => /\ pending' = pending
           /\ emitted' = <<>> ]_vars

\* C9: a received transaction that is already pending is dropped without a
\* notification, so no transaction is pending twice.
C9_NoDuplicatePending ==
    [][ /\ (Handles("Transaction") /\ Head(channel).transaction \in Range(pending))
          => /\ pending' = pending
             /\ emitted' = <<>>
        /\ \A i, j \in DOMAIN pending' : pending'[i] = pending'[j] => i = j ]_vars

\* --------------------------------------------- claims about the mutexes
\* The place of a mutex in the order UTXO, chain, wallet
Rank(mutex) ==
    IF mutex = "utxo" THEN 1 ELSE IF mutex = "chain" THEN 2 ELSE 3

\* C10: a thread that holds more than one of the UTXO, chain and wallet
\* mutexes took them in the order UTXO, chain, wallet.
C10_LockOrder ==
    \A thread \in Threads : \A i, j \in DOMAIN held[thread] :
        ( /\ i < j
          /\ held[thread][i] \in {"utxo", "chain", "wallet"}
          /\ held[thread][j] \in {"utxo", "chain", "wallet"} )
        => Rank(held[thread][i]) < Rank(held[thread][j])

\* A step in which the thread sends on a channel
Sends(thread) ==
    /\ plan[thread] # <<>>
    /\ Head(plan[thread]).op = "send"
    /\ plan'[thread] = Tail(plan[thread])

\* C11: at the moment a thread sends on a channel, a notification or a
\* transaction for the peers, it holds at most one of the UTXO, chain and
\* wallet mutexes.
C11_OneLockAtSend ==
    [][ \A thread \in Threads :
          Sends(thread)
            => Cardinality(Range(held[thread]) \cap {"utxo", "chain", "wallet"}) < 2 ]_vars

\* ------------------------------------- claims about the initial download
\* A step in which get_headers read a headers message
ReadHeaders ==
    /\ ibd = "get_headers"
    /\ ibd' # "get_headers"
    /\ responding' = responding

\* A step in which the getheaders message was sent
SentGetHeaders == ibd = "get_peer_header" /\ ibd' = "get_headers"

\* A step in which get_data ran
RanGetData == ibd = "get_data" /\ ibd' # "get_data"

\* C12: no header whose hash exceeds the target of its n_bits is a node of
\* the chain the headers download builds.
C12_ProofOfWorkChecked ==
    \A i \in DOMAIN blocks :
        get_hash256d(blocks[i].block.header) <= blocks[i].block.header.n_bits

\* The header at place i of the batch read has its parent in the chain
LinksAfter(i) ==
    \E k \in DOMAIN blocks' : is_previous_of(blocks'[k], Block_new(batch'[i]))

\* The header at place j of the batch read fails proof-of-work, or is not
\* in the chain and has no parent there
BadHeader(j) ==
    \/ ~proof_of_work(batch'[j])
    \/ /\ ~LinksAfter(j)
       /\ \A k \in DOMAIN blocks' : blocks'[k].block.header # batch'[j]

\* C13: when a header of a batch fails proof-of-work or has an unknown
\* parent, the headers after it in the batch that link to the chain are
\* nodes of the chain once the batch is processed, and the download has
\* not stopped or failed inside the batch.
C13_BadHeaderIsSkipped ==
    [][ ReadHeaders =>
          /\ ibd' \notin {"hung", "ErrorFromPeer"}
          /\ \A i \in DOMAIN batch' :
                ((\E j \in 1..(i - 1) : BadHeader(j)) /\ LinksAfter(i))
                  => \E k \in DOMAIN blocks' : blocks'[k].block.header = batch'[i] ]_vars

\* C14: after a batch that added headers the loop asks again; after an
\* empty batch it stops; a getheaders is sent only at the start or after a
\* batch that added headers; and the loop never stays inside a batch.
C14_LoopStopsOnEmptyBatch ==
    [][ /\ ReadHeaders =>
              /\ Len(blocks') > Len(blocks) => ibd' = "get_peer_header"
              /\ batch' = <<>> => ibd' = "headers_first"
              /\ ibd' # "hung"
        /\ SentGetHeaders =>
              (notified = <<>> \/ notified[Len(notified)].count > 0) ]_vars

\* C15: every batch read emits exactly one HeadersReceived, whose count is
\* the number of nodes the batch added to the chain, and no other step
\* emits one.
C15_OneNotificationPerBatch ==
    [][ IF ReadHeaders
        THEN notified' = Append(notified, HeadersReceived(Len(blocks') - Len(blocks)))
        ELSE notified' = notified ]_vars

\* C16: once the peer did not answer a getheaders, no getdata is sent to it.
C16_NoGetDataAfterSilence ==
    ~responding => \A i \in DOMAIN wire : wire[i].type # "getdata"

\* The header with the hash
HeaderOf(hash) == CHOOSE header \in Headers : get_hash256d(header) = hash

\* C17: the getheaders message carries the all-zero stop hash and, as
\* locator, the hash of every tip once, the most recent header first.
C17_LocatorIsTipsNewestFirst ==
    [][ SentGetHeaders =>
          LET message == wire'[Len(wire')]
              locator == message.header_locator_hashes
          IN  /\ message.stop_hash = 0
              /\ Len(locator) = Len(last_blocks)
              /\ Range(locator) = { blocks[last_blocks[i]].header_hash : i \in DOMAIN last_blocks }
              /\ \A i, j \in DOMAIN locator :
                    i < j => HeaderOf(locator[i]).time >= HeaderOf(locator[j]).time ]_vars

\* C18: the hashes of the getdata message are those of the header-only
\* nodes whose time is the timestamp or later, and of no other node.
C18_SelectsFromTimestampOn ==
    [][ RanGetData =>
          /\ Len(wire') = Len(wire) + 1
          /\ wire'[Len(wire')].type = "getdata"
          /\ Range(wire'[Len(wire')].hashes) =
                { blocks[i].header_hash : i \in
                    { k \in DOMAIN blocks :
                        /\ blocks[k].block.transactions = <<>>
                        /\ blocks[k].block.header.time >= timestamp } } ]_vars

\* The hashes of the getdata messages of the sequence, in order
RECURSIVE Requested(_)
Requested(messages) ==
    IF messages = <<>> THEN <<>>
    ELSE (IF Head(messages).type = "getdata" THEN Head(messages).hashes ELSE <<>>)
            \o Requested(Tail(messages))

\* C19: whatever the number of hashes, get_data requests all of them, in
\* getdata messages of at most MAX_HEADERS_COUNT hashes each.
C19_EveryHashRequested ==
    [][ RanGetData =>
          /\ Requested(wire') = Requested(wire) \o hashed_headers
          /\ \A i \in DOMAIN wire' :
                wire'[i].type = "getdata" => Len(wire'[i].hashes) <= MAX_HEADERS_COUNT ]_vars

\* C20: get_data returns RequestedDataTooBig exactly when it is given more
\* than MAX_HEADERS_COUNT hashes; with exactly that many it sends them.
C20_CeilingIsInclusive ==
    [][ RanGetData =>
          /\ ibd' = "RequestedDataTooBig" <=> Len(hashed_headers) > MAX_HEADERS_COUNT
          /\ Len(hashed_headers) = MAX_HEADERS_COUNT
                => wire' = Append(wire, GetDataMessage(hashed_headers)) ]_vars

\* ------------------------------------ claims about the download of blocks
\* C21: when get_data succeeds it returns one block per requested hash, in
\* the order of the request: the i-th block is the block whose header has
\* the i-th hash, and no other block is taken in its place.
C21_BlocksInRequestOrder ==
    [][ ReceiveBlocks =>
          /\ Len(downloaded') = Len(hashed_headers)
          /\ \A i \in DOMAIN downloaded' :
                get_hash256d(downloaded'[i].header) = hashed_headers[i] ]_vars

\* C22: no block whose transactions do not give the merkle root of its
\* header is applied to the chain during the download.
C22_NoForgedBlockApplied ==
    \A i \in DOMAIN blocks :
        blocks[i].block.transactions # <<>>
            => proof_of_inclusion(blocks[i].block.header, blocks[i].block.transactions)

\* The node of the header with this hash holds its transactions
Applied(hash) ==
    \E i \in DOMAIN blocks :
        /\ get_hash256d(blocks[i].block.header) = hash
        /\ blocks[i].block.transactions # <<>>

\* C23: a progress notification with done = total is sent only if every
\* requested block was applied to the chain.
C23_TotalOnlyWhenAllApplied ==
    (\E i \in DOMAIN notified :
        /\ notified[i].type = "ProgressUpdatingBlockchain"
        /\ notified[i].done = notified[i].total)
      => \A j \in DOMAIN hashed_headers : Applied(hashed_headers[j])

\* ------------------------------------- claims about messages on a stream
\* The cell at which the k-th frame of the peer starts, counted from 0
Start(k) == Len(Cells(SubSeq(sent, 1, k - 1)))

\* The name of the command of a frame, "unknown" if it has none
NameOf(frame) ==
    LET known == { i \in DOMAIN CommandNames : CommandCell(CommandNames[i]) = frame.command }
    IN  IF known = {} THEN "unknown" ELSE CommandNames[CHOOSE i \in known : TRUE]

\* The payload of the frame is the serialization of a message of its command
WellFormedPayload(frame) ==
    /\ NameOf(frame) # "unknown"
    /\ LET read == io_deserialize(NameOf(frame), frame.payload)
       IN  read.ok /\ io_serialize(read.message) = frame.payload

\* A frame of a known command with the payload of its message and the
\* checksum of its payload
WellFormed(frame) ==
    WellFormedPayload(frame) /\ frame.checksum = hash256d_reduce(frame.payload)

\* The pong that answers a ping frame, as cells
PongFor(frame) == serialize_message("pong", frame.payload)

\* C24: while the node looks for a message, a ping that arrives is answered
\* with exactly one pong of the same nonce, written before the node reads
\* the frame after the ping.
C24_PingIsAnswered ==
    [][ \A k \in DOMAIN sent :
          ( /\ search = "searching"
            /\ consumed = Start(k)
            /\ NameOf(sent[k]) = "ping"
            /\ WellFormed(sent[k]) )
          => /\ written' = written \o PongFor(sent[k])
             /\ consumed' = Start(k + 1) ]_vars

C24_PongWritten ==
    /\ written # <<>>
    /\ \E k \in DOMAIN sent : NameOf(sent[k]) = "ping" /\ consumed >= Start(k + 1)

\* A frame the search is to pass over: not of the command looked for, and
\* either well formed or of no known command
Ignorable(frame) ==
    /\ frame.command # CommandCell(search_name)
    /\ (WellFormed(frame) \/ NameOf(frame) = "unknown")

\* C25: deserialize_until_found returns the header of the first frame of the
\* searched command; the frames before it are consumed whole and ignored,
\* and no cell of the payload of the found frame is consumed.
C25_FirstSearchedIsFound ==
    \A k \in DOMAIN sent :
        ( /\ sent[k].command = CommandCell(search_name)
          /\ \A j \in 1..(k - 1) : Ignorable(sent[j]) )
        => /\ search \notin {"ErrorWhileReading", "ErrorInDeserialization"}
           /\ search = "found" =>
                /\ message_header = MessageHeader(search_name, Len(sent[k].payload),
                                                  sent[k].checksum)
                /\ consumed = Start(k) + 3

\* C26: a frame of an unknown command is drained and the search goes on
\* with the next frame, without an error.
C26_UnknownIsDrained ==
    [][ \A k \in DOMAIN sent :
          ( /\ search = "searching"
            /\ consumed = Start(k)
            /\ NameOf(sent[k]) = "unknown" )
          => /\ search' = "searching"
             /\ consumed' = Start(k + 1) ]_vars

\* The frame a caller has just read the message of
Accepts(frame) == decoded' = "Ok"

\* C27: the message of a frame is accepted exactly when the checksum of the
\* header is that of the payload: a well-formed frame is accepted, a frame
\* with another checksum is rejected, whatever the message.
C27_ChecksumDecides ==
    [][ \A k \in DOMAIN sent :
          ( \/ DeserializeMessage /\ consumed = Start(k) + 3
            \/ DeserializeVerack /\ consumed = Start(k) )
          => /\ WellFormed(sent[k]) => Accepts(sent[k])
             /\ sent[k].checksum # hash256d_reduce(sent[k].payload)
                   => ~Accepts(sent[k]) ]_vars

\* C28: reading a message consumes the payload its header declares and no
\* more, also when the message is refused after the payload was read: the
\* next header starts where the frame ends.
C28_PayloadIsReadWhole ==
    [][ \A k \in DOMAIN sent :
          ( \/ (IgnoreMessage \/ AnswerPing) /\ consumed = Start(k)
            \/ DeserializeMessage /\ consumed = Start(k) + 3 )
          => consumed' = Start(k + 1) ]_vars

C28_RefusedAfterPayload ==
    /\ search = "ErrorInDeserialization"
    /\ message_header # NoHeader
    /\ \E k \in DOMAIN sent : k < Len(sent) /\ consumed = Start(k + 1)

\* -------------------------------------- claims about sending a transaction
\* The outputs of the selected account in the UTXO set
Owned == get_utxo_list_with_outpoints(utxo, selected_account)

RECURSIVE SumOfSet(_)
SumOfSet(entries) ==
    IF entries = {} THEN 0
    ELSE LET e == CHOOSE x \in entries : TRUE
         IN  e.output.value + SumOfSet(entries \ {e})

\* The shortest prefix of the outputs whose values sum to at least needed
ShortestPrefix(outputs, needed) ==
    LET enough == { n \in 0..Len(outputs) : SumValues(SubSeq(outputs, 1, n)) >= needed }
    IN  SubSeq(outputs, 1, CHOOSE n \in enough : \A m \in enough : n <= m)

\* A step of sending_transaction for a selected account: it hands a
\* transaction over, prints, or ends the thread
Asked ==
    /\ selected_account # "None"
    /\ <<handed, printed, tui>>' # <<handed, printed, tui>>

\* C29: Account::create_transaction fails with NotEnoughFunds exactly when
\* the values of the outputs the account owns sum to less than amount + fee;
\* otherwise the outputs it spends are the shortest prefix of the account's
\* outputs, sorted by descending value, whose values sum to at least
\* amount + fee.
C29_SpendsShortestPrefix ==
    [][ Asked =>
          /\ created'.res = "NotEnoughFunds" <=> SumOfSet(Owned) < amount' + fee'
          /\ created'.res = "Ok" =>
                 created'.outputs_to_spend = ShortestPrefix(available', amount' + fee')
      ]_vars

\* C30: when sending a transaction fails with NotEnoughFunds, the UTXO set
\* and the pending transactions are as before, no transaction is handed to
\* the broadcasting, and the user is told of the insufficient funds.
C30_NotEnoughFundsChangesNothing ==
    [][ Asked /\ created'.res = "NotEnoughFunds" =>
          /\ utxo' = utxo
          /\ pending' = pending
          /\ handed' = handed
          /\ printed' = Append(printed, "Transaction without sufficient funds")
          /\ tui' = "menu"
      ]_vars

\* An account that owns outputs asked for more than they hold
C30_RefusedWithFunds ==
    /\ created.res = "NotEnoughFunds"
    /\ Owned # {}
    /\ pending # <<>>
    /\ printed # <<>>
    /\ handed = <<>>


\* ------------------------------------- more claims about the chain
\* The first node of the chain that holds the header of the block
FirstWithHeader(block) ==
    CHOOSE i \in DOMAIN blocks :
        /\ is_equal(blocks[i], block)
        /\ \A j \in 1..(i - 1) : ~is_equal(blocks[j], block)

\* C35: update_block(B) replaces the block stored in the node whose header
\* is B's header and leaves the number of nodes, every parent index and
\* the tip list as they were; when no node has B's header it returns
\* CouldNotUpdate and leaves the chain as it was.
C35_UpdateBlockFrame ==
    [][ call'.op = "update_block" =>
          /\ last_blocks' = last_blocks
          /\ Len(blocks') = Len(blocks)
          /\ \A i \in DOMAIN blocks :
                 blocks'[i].index_previous_node = blocks[i].index_previous_node
          /\ IF \E i \in DOMAIN blocks : is_equal(blocks[i], call'.block)
             THEN /\ result' = "Ok"
                  /\ blocks'[FirstWithHeader(call'.block)].block = call'.block
                  /\ \A i \in DOMAIN blocks :
                         i # FirstWithHeader(call'.block) => blocks'[i] = blocks[i]
             ELSE /\ result' = "CouldNotUpdate"
                  /\ blocks' = blocks
      ]_vars

\* A node below the newest one of a forked chain got its transactions
C35_InteriorNodeUpdated ==
    /\ call.op = "update_block"
    /\ result = "Ok"
    /\ Len(last_blocks) >= 2
    /\ \E i \in 1..(Len(blocks) - 1) :
           /\ blocks[i].block = call.block
           /\ blocks[i].block.transactions # <<>>

\* C36: append_block returns, with Ok or with an error, for every chain
\* and every block.
C36_AppendBlockReturns ==
    call.op \in {"append_block", "append_header"} => result # "Diverge"

\* C37: the tip list holds no index twice, every tip is an index of the
\* node vector, and a node is a tip exactly when no node has it as its
\* parent.
C37_TipsAreTheLeaves ==
    /\ \A i \in DOMAIN last_blocks, j \in DOMAIN last_blocks :
           last_blocks[i] = last_blocks[j] => i = j
    /\ \A i \in DOMAIN last_blocks : last_blocks[i] \in DOMAIN blocks
    /\ \A n \in DOMAIN blocks :
           n \in Range(last_blocks) <=>
               ~ \E m \in DOMAIN blocks : blocks[m].index_previous_node = n


\* ----------------------------------- more claims about the chain updater
\* C38: a received block that cannot be appended to the chain because its
\* parent is unknown leaves the UTXO set and the pending transactions as
\* they were.
C38_UnknownParentChangesNothing ==
    [][ /\ channel # <<>>
        /\ channel' = Tail(channel)
        /\ Head(channel).type = "Block"
        /\ ~InChain(Head(channel).block)
        /\ ~ParentInChain(Head(channel).block)
        => /\ utxo' = utxo
           /\ pending' = pending
      ]_vars


\* ------------------------------------------- more claims about the mutexes
\* The thread is inside Mutex::lock of the mutex
Waits(thread, mutex) ==
    /\ plan[thread] # <<>>
    /\ Head(plan[thread]) = Lock(mutex)

Holds(thread, mutex) == mutex \in Range(held[thread])

C40_CountedExactlyOnce ==
    shown.asked =>
        \A transaction \in shown.received :
            (transaction \in shown.pending) # (transaction \in shown.confirmed)


\* C31: no wallet error (insufficient funds, failure to sign or to build the
\* transaction) ends the loop of user_input: after the error, the front end
\* is at its menu again and takes the next command.
C31_WalletErrorKeepsLoop ==
    [][ Asked /\ created'.res \in {"NotEnoughFunds", "CannotCreateNewTransaction"} =>
          tui' = "menu"
      ]_vars


\* The messages of the channel that came from the peer, oldest first
FromPeer(queue, id) == SelectSeq(queue, LAMBDA message : message.id = id)

\* The step is the chain updater's handling of the message
AppliedByUpdater(message) ==
    /\ updater = "running"
    /\ message = Head(channel)
    /\ channel' = Tail(channel)
    /\ message.type = "Block" => call' = [op |-> "append_block", block |-> message.block]
    /\ message.type = "Transaction" =>
           pending' \in {pending, Append(pending, message.transaction)}

\* C33: the blocks and transactions that came from one peer reach the chain
\* updater and are applied by it in the order in which they arrived: what a
\* peer forwards goes behind all it forwarded before, and the message the
\* updater applies is the oldest one of its peer that is not yet applied.
C33_AppliedInArrivalOrder ==
    [][ \A id \in ConnectionIds :
          LET before == FromPeer(channel, id)
              after == FromPeer(channel', id)
          IN  \/ after = before
              \/ \E message \in Messages : message.id = id /\ after = Append(before, message)
              \/ /\ before # <<>>
                 /\ after = Tail(before)
                 /\ AppliedByUpdater(Head(before))
      ]_vars

\* After a first block was applied, a block and another message that came
\* from the same peer wait in the channel
C33_TwoOfOnePeerWait ==
    /\ updater = "running"
    /\ call.op = "append_block"
    /\ Len(channel) = 2
    /\ channel[1].id = channel[2].id
    /\ channel[1] # channel[2]
    /\ channel[1].type = "Block"


\* C34: at the end of the run every peer thread has ended before the chain
\* updater is joined, the chain and the wallet are given to the save step
\* only after the chain updater has ended, nothing is applied to the chain
\* after it was taken, and taking it never fails on another holder of the Arc.
C34_SavedAfterUpdaterEnded ==
    /\ execution \in {"join", "get_inner", "saved", "todo"} => senders = 0
    /\ execution \in {"get_inner", "saved", "todo"} => updater \in {"done", "failed"}
    /\ save_system.taken =>
          /\ updater \in {"done", "failed"}
          /\ save_system.blocks = blocks
          /\ save_system.last_blocks = last_blocks
          /\ save_system.wallet = wallet
    /\ execution # "todo"

\* The chain was saved with a block that the updater had appended
C34_SavedGrownChain ==
    /\ execution = "saved"
    /\ save_system.taken
    /\ Len(save_system.blocks) > 1


\* The commands the task has taken off its channel, oldest first
Taken == SubSeq(queued, 1, Len(queued) - Len(commands))

\* The transactions of the SendTransaction commands among them
TransactionsOf(cmds) ==
    LET sends == SelectSeq(cmds, LAMBDA command : command.type = "SendTransaction")
    IN  [i \in DOMAIN sends |-> sends[i].transaction]

\* C32: the commands of a peer's command channel are handled in the order
\* they were sent: the transactions written to the socket are those of the
\* SendTransaction commands taken so far, in their order, so one queued before
\* Stop is written before the task ends; the task ends exactly on Stop, and
\* until then it never waits for the peer to send something.
C32_CommandsInOrder ==
    /\ queued = Taken \o commands
    /\ outgoing = TransactionsOf(Taken)
    /\ peer_manager = "stopped" <=> (Taken # <<>> /\ Taken[Len(Taken)] = Stop)
    /\ peer_manager # "stopped" => ENABLED (PeerRead \/ PeerCommand)

\* The run of test01_program_run_correctly: a transaction and Stop were
\* queued, the peer had sent one transaction; the task forwarded it, wrote
\* the queued one and ended
C32_SentThenStopped ==
    /\ peer_manager = "stopped"
    /\ Len(queued) = 2
    /\ queued[1].type = "SendTransaction"
    /\ outgoing = << queued[1].transaction >>
    /\ Len(channel) = 1
    /\ channel[1].type = "Transaction"
    /\ incoming = <<>>

====
